---- MODULE Spec2Model ----
(***************************************************************************)
(* A model of the Repository Property Graph (RPG) encoder:                 *)
(*   - crates/rpg-core/src/schema.rs: validate_version, migrate,           *)
(*     migrate_normalize_entity_ids, to_json, from_json;                   *)
(*   - the graph primitives and the evolution operations exercised by      *)
(*     crates/rpg-encoder/tests/incremental_test.rs.                       *)
(* Strings whose characters matter (entity IDs, paths, version strings)    *)
(* are sequences of one-character strings.                                 *)
(***************************************************************************)
EXTENDS Integers, Sequences, FiniteSets, TLC

VARIABLES
    graph,   \* the RPGraph the caller owns
    prev,    \* the graph as it was before the last operation
    op,      \* the last operation, with its arguments
    ret,     \* what the last operation returned
    json,    \* the last output of to_json (NoJson before the first)
    steps    \* number of operations applied so far

vars == <<graph, prev, op, ret, json, steps>>

\* ------------------------------------------------------------------ bounds

\* Longest edge list of a loaded graph.
MaxEdges == 2
\* Most incremental operations applied to one built graph.
MaxOps == 3

\* ----------------------------------------------------------------- strings

EmptyMap == [x \in {} |-> x]

Digits == {"0", "1", "2", "3", "4", "5", "6", "7", "8", "9"}

DigitVal(c) ==
    CASE c = "0" -> 0 [] c = "1" -> 1 [] c = "2" -> 2 [] c = "3" -> 3
      [] c = "4" -> 4 [] c = "5" -> 5 [] c = "6" -> 6 [] c = "7" -> 7
      [] c = "8" -> 8 [] c = "9" -> 9

AllDigits(s) == \A i \in 1..Len(s) : s[i] \in Digits

\* The printable ASCII characters in byte order, the space (32) first.  "bq"
\* is the backquote (96), which a string of this notation cannot hold.
Ascii ==
    <<" ", "!", "\"", "#", "$", "%", "&", "'", "(", ")", "*", "+", ",", "-", ".", "/",
      "0", "1", "2", "3", "4", "5", "6", "7", "8", "9", ":", ";", "<", "=", ">", "?",
      "@", "A", "B", "C", "D", "E", "F", "G", "H", "I", "J", "K", "L", "M", "N", "O",
      "P", "Q", "R", "S", "T", "U", "V", "W", "X", "Y", "Z", "[", "\\", "]", "^", "_",
      "bq", "a", "b", "c", "d", "e", "f", "g", "h", "i", "j", "k", "l", "m", "n", "o",
      "p", "q", "r", "s", "t", "u", "v", "w", "x", "y", "z", "{", "|", "}", "~">>

\* The byte of each character, the tab, line feed, form feed and carriage
\* return included.
Bytes ==
    [c \in {Ascii[i] : i \in 1..Len(Ascii)} \cup {"\t", "\n", "\f", "\r"} |->
        CASE c = "\t" -> 9 [] c = "\n" -> 10 [] c = "\f" -> 12 [] c = "\r" -> 13
          [] OTHER -> 31 + (CHOOSE i \in 1..Len(Ascii) : Ascii[i] = c)]

\* The byte of a character (Rust compares strings bytewise).
CharCode(c) == Bytes[c]

\* a < b for strings: lexicographic on bytes, a proper prefix first.
RECURSIVE StrLess(_, _)
StrLess(a, b) ==
    IF a = <<>> THEN b # <<>>
    ELSE IF b = <<>> THEN FALSE
    ELSE IF a[1] = b[1] THEN StrLess(Tail(a), Tail(b))
    ELSE CharCode(a[1]) < CharCode(b[1])

\* The strings of S in ascending order.
RECURSIVE SortedIds(_)
SortedIds(S) ==
    IF S = {} THEN <<>>
    ELSE LET m == CHOOSE x \in S : \A y \in S \ {x} : StrLess(x, y)
         IN  <<m>> \o SortedIds(S \ {m})

\* Position of the first c in s, 0 when there is none.
IndexOf(s, c) ==
    IF \E i \in 1..Len(s) : s[i] = c
    THEN CHOOSE i \in 1..Len(s) : s[i] = c /\ \A j \in 1..(i - 1) : s[j] # c
    ELSE 0

\* str::split(sep): the pieces of s between the separators.
RECURSIVE SplitOn(_, _)
SplitOn(s, sep) ==
    LET i == IndexOf(s, sep)
    IN  IF i = 0 THEN <<s>>
        ELSE <<SubSeq(s, 1, i - 1)>> \o SplitOn(SubSeq(s, i + 1, Len(s)), sep)

HasBackslash(s) == \E i \in 1..Len(s) : s[i] = "\\"

\* ------------------------------------------------------------------ semver

\* a < b for numbers written in digits without leading zeros; the version
\* numbers are kept as written, a u64 being wider than the checker's integers.
NumLess(a, b) == Len(a) < Len(b) \/ (Len(a) = Len(b) /\ StrLess(a, b))

\* u64::MAX, 2^64 - 1.
U64Max ==
    <<"1", "8", "4", "4", "6", "7", "4", "4", "0", "7", "3", "7", "0", "9", "5", "5",
      "1", "6", "1", "5">>

\* s without its leading zeros.
TrimZeros(s) ==
    LET used == {i \in 1..Len(s) : s[i] # "0"}
    IN  IF used = {} THEN <<>>
        ELSE SubSeq(s, CHOOSE i \in used : \A j \in used : i <= j, Len(s))

\* A numeric identifier of semver: digits, no leading zero, at most u64::MAX.
IsNumeric(p) ==
    /\ Len(p) > 0
    /\ AllDigits(p)
    /\ (Len(p) > 1 => p[1] # "0")
    /\ ~NumLess(U64Max, p)

RECURSIVE NumVal(_)
NumVal(p) ==
    IF p = <<>> THEN 0
    ELSE NumVal(SubSeq(p, 1, Len(p) - 1)) * 10 + DigitVal(p[Len(p)])

Letters == {c \in DOMAIN Bytes : Bytes[c] \in 65..90 \cup 97..122}

\* An identifier of a pre-release (build = FALSE) or of build metadata
\* (build = TRUE): letters, digits and hyphens, not empty; a pre-release
\* identifier of digits alone has no leading zero.
IsIdentifier(p, build) ==
    /\ Len(p) > 0
    /\ \A i \in 1..Len(p) : p[i] \in Digits \cup Letters \cup {"-"}
    /\ (~build /\ AllDigits(p) /\ Len(p) > 1) => p[1] # "0"

\* semver::Version::parse: MAJOR.MINOR.PATCH, then an optional -PRERELEASE
\* and an optional +BUILD, each of dot-separated identifiers.
ParseVersion(s) ==
    LET plus  == IndexOf(s, "+")
        main  == IF plus = 0 THEN s ELSE SubSeq(s, 1, plus - 1)
        build == IF plus = 0 THEN <<>> ELSE SubSeq(s, plus + 1, Len(s))
        dash  == IndexOf(main, "-")
        core  == IF dash = 0 THEN main ELSE SubSeq(main, 1, dash - 1)
        pre   == IF dash = 0 THEN <<>> ELSE SubSeq(main, dash + 1, Len(main))
        parts == SplitOn(core, ".")
        ids   == SplitOn(pre, ".")
        meta  == SplitOn(build, ".")
    IN  IF /\ Len(parts) = 3
           /\ \A i \in 1..3 : IsNumeric(parts[i])
           /\ (dash # 0 => \A i \in 1..Len(ids) : IsIdentifier(ids[i], FALSE))
           /\ (plus # 0 => \A i \in 1..Len(meta) : IsIdentifier(meta[i], TRUE))
        THEN [ok |-> TRUE, major |-> parts[1], minor |-> parts[2],
              patch |-> parts[3], pre |-> pre, build |-> build]
        ELSE [ok |-> FALSE, major |-> <<"0">>, minor |-> <<"0">>, patch |-> <<"0">>,
              pre |-> <<>>, build |-> <<>>]

\* l < r for two identifiers.  Identifiers of digits alone compare as
\* numbers and precede the others, which compare bytewise; in build metadata
\* leading zeros are allowed, and of two equal numbers the shorter text is
\* first.
IdLess(l, r, build) ==
    IF AllDigits(l) /\ AllDigits(r)
    THEN IF build
         THEN \/ NumLess(TrimZeros(l), TrimZeros(r))
              \/ TrimZeros(l) = TrimZeros(r) /\ Len(l) < Len(r)
         ELSE NumLess(l, r)
    ELSE IF AllDigits(l) THEN TRUE
    ELSE IF AllDigits(r) THEN FALSE
    ELSE StrLess(l, r)

\* x < y for two lists of identifiers: the first differing pair decides, and
\* a list precedes its extensions.
RECURSIVE IdsLess(_, _, _)
IdsLess(x, y, build) ==
    IF x = <<>> THEN y # <<>>
    ELSE IF y = <<>> THEN FALSE
    ELSE IF IdLess(x[1], y[1], build) THEN TRUE
    ELSE IF IdLess(y[1], x[1], build) THEN FALSE
    ELSE IdsLess(Tail(x), Tail(y), build)

\* Prerelease::cmp: a pre-release precedes its release.
PreLess(a, b) ==
    IF a = <<>> THEN FALSE
    ELSE IF b = <<>> THEN TRUE
    ELSE IdsLess(SplitOn(a, "."), SplitOn(b, "."), FALSE)

\* Version::cmp, a < b: major, minor, patch, pre-release and build metadata
\* in turn.
VersionLess(a, b) ==
    \/ NumLess(a.major, b.major)
    \/ a.major = b.major /\ NumLess(a.minor, b.minor)
    \/ a.major = b.major /\ a.minor = b.minor /\ NumLess(a.patch, b.patch)
    \/ /\ a.major = b.major /\ a.minor = b.minor /\ a.patch = b.patch
       /\ \/ PreLess(a.pre, b.pre)
          \/ /\ a.pre = b.pre
             /\ IdsLess(SplitOn(a.build, "."), SplitOn(b.build, "."), TRUE)

CURRENT_VERSION == <<"2", ".", "2", ".", "0">>

\* Version::new(2, 2, 0), the version that introduced the ID normalization.
V220 ==
    [ok |-> TRUE, major |-> <<"2">>, minor |-> <<"2">>, patch |-> <<"0">>,
     pre |-> <<>>, build |-> <<>>]

\* ------------------------------------------------------------------- graph

\* Entity IDs and paths of the loaded graphs.  IdW and IdM are two Windows
\* spellings of IdU; IdU and IdD are keys of no loaded graph.
IdW == <<"a", "\\", "b", "\\", "c", ":", "f">>
IdM == <<"a", "/", "b", "\\", "c", ":", "f">>
IdU == <<"a", "/", "b", "/", "c", ":", "f">>
IdG == <<"a", "/", "b", "/", "c", ":", "g">>
IdD == <<"x", "\\", "y", ":", "g">>
FileABC == <<"a", "/", "b", "/", "c">>
FileAB == <<"a", "-", "b">>
NodeA == <<"h", ":", "A">>

EdgeKinds == {"Invokes", "Inherits", "Imports", "Contains"}

\* Declaration order of EdgeKind, which the derived Ord follows.
KindRank(k) ==
    CASE k = "Invokes" -> 0 [] k = "Inherits" -> 1
      [] k = "Imports" -> 2 [] k = "Contains" -> 3

Edge(s, t, k) == [source |-> s, target |-> t, kind |-> k]

\* DependencyEdge's derived Ord: by (source, target, kind).
EdgeLess(e1, e2) ==
    \/ StrLess(e1.source, e2.source)
    \/ e1.source = e2.source /\ StrLess(e1.target, e2.target)
    \/ /\ e1.source = e2.source /\ e1.target = e2.target
       /\ KindRank(e1.kind) < KindRank(e2.kind)

\* Insert e into the sorted sequence s, after the elements not greater.
RECURSIVE InsertSorted(_, _)
InsertSorted(s, e) ==
    IF s = <<>> THEN <<e>>
    ELSE IF EdgeLess(e, s[1]) THEN <<e>> \o s
    ELSE <<s[1]>> \o InsertSorted(Tail(s), e)

\* Insert e into the sorted sequence s unless s holds it already.
RECURSIVE InsertSortedUnique(_, _)
InsertSortedUnique(s, e) ==
    IF s = <<>> THEN <<e>>
    ELSE IF e = s[1] THEN s
    ELSE IF EdgeLess(e, s[1]) THEN <<e>> \o s
    ELSE <<s[1]>> \o InsertSortedUnique(Tail(s), e)

\* The edges as they are held in memory: to_json without its sort.
EdgesAsHeld(s) == s

\* sort followed by dedup, which to_json does not do.
RECURSIVE SortDedupEdges(_)
SortDedupEdges(s) ==
    IF s = <<>> THEN <<>>
    ELSE InsertSortedUnique(SortDedupEdges(SubSeq(s, 1, Len(s) - 1)), s[Len(s)])

\* Vec::sort on the edges (stable).
RECURSIVE SortEdges(_)
SortEdges(s) ==
    IF s = <<>> THEN <<>>
    ELSE InsertSorted(SortEdges(SubSeq(s, 1, Len(s) - 1)), s[Len(s)])

IsSorted(s) == \A i \in 1..(Len(s) - 1) : ~EdgeLess(s[i + 1], s[i])

\* EntityDeps: the raw dependency payload, names as written in the source.
Deps(invokes, inherits) == [invokes |-> invokes, inherits |-> inherits]

NoDeps == Deps({}, {})

Entity(id, kind, name, file, feats, hpath, deps) ==
    [id |-> id, kind |-> kind, name |-> name, file |-> file,
     semantic_features |-> feats, hierarchy_path |-> hpath, deps |-> deps]

HierarchyNode(name, ents, children) ==
    [name |-> name, entities |-> ents, children |-> children]

\* ------------------------------------------------------------ schema.rs

\* validate_version rejecting only an older major (< written for !=).
ValidateVersionOlderOnly(g) ==
    LET current == ParseVersion(CURRENT_VERSION)
        found   == ParseVersion(g.version)
    IN  IF ~found.ok THEN "VersionUnparseable"
        ELSE IF NumLess(found.major, current.major) THEN "VersionIncompatible"
        ELSE "Ok"

\* validate_version: Ok, or the error it bails with.
ValidateVersion(g) ==
    LET current == ParseVersion(CURRENT_VERSION)
        found   == ParseVersion(g.version)
    IN  IF ~found.ok THEN "VersionUnparseable"
        ELSE IF found.major # current.major THEN "VersionIncompatible"
        ELSE "Ok"

\* norm: every backslash becomes a slash.
norm(id) == [i \in 1..Len(id) |-> IF id[i] = "\\" THEN "/" ELSE id[i]]

\* remap.get(id), falling back to id itself.
Remapped(id, remap) == IF id \in DOMAIN remap THEN remap[id] ELSE id

RemapList(ids, remap) == [i \in 1..Len(ids) |-> Remapped(ids[i], remap)]

RECURSIVE fix_hierarchy(_, _)
fix_hierarchy(node, remap) ==
    [name     |-> node.name,
     entities |-> RemapList(node.entities, remap),
     children |-> [c \in DOMAIN node.children |->
                      fix_hierarchy(node.children[c], remap)]]

\* migrate_normalize_entity_ids.  The entities are re-inserted under their
\* normalized keys in the map's iteration order; when several old keys
\* normalize to one new key the last one inserted stays, and which one that
\* is depends on the order: every choice is an outcome.
MigrateNormalizeEntityIds(g) ==
    LET keys     == DOMAIN g.entities
        newKeys  == {norm(k) : k \in keys}
        id_remap == [k \in {x \in keys : norm(x) # x} |-> norm(k)]
        lasts    == {c \in [newKeys -> keys] : \A nk \in newKeys : norm(c[nk]) = nk}
        ents(c)  == [nk \in newKeys |-> [g.entities[c[nk]] EXCEPT !.id = nk]]
    IN  { IF DOMAIN id_remap = {}
          THEN [g EXCEPT !.entities = ents(c)]
          ELSE [g EXCEPT
                  !.entities   = ents(c),
                  !.file_index = [p \in DOMAIN g.file_index |->
                                    RemapList(g.file_index[p], id_remap)],
                  !.edges      = [i \in 1..Len(g.edges) |->
                                    [g.edges[i] EXCEPT
                                       !.source = Remapped(@, id_remap),
                                       !.target = Remapped(@, id_remap)]],
                  !.hierarchy  = [n \in DOMAIN g.hierarchy |->
                                    fix_hierarchy(g.hierarchy[n], id_remap)]]
          : c \in lasts }

\* migrate without the final `graph.version = CURRENT_VERSION`.
MigrateKeepsVersion(g) ==
    LET current == ParseVersion(CURRENT_VERSION)
        found   == ParseVersion(g.version)
    IN  IF ~found.ok THEN {[status |-> "VersionUnparseable", graph |-> g]}
        ELSE IF VersionLess(found, current)
        THEN {[status |-> "Ok", graph |-> g2] :
                g2 \in IF VersionLess(found, V220)
                       THEN MigrateNormalizeEntityIds(g) ELSE {g}}
        ELSE {[status |-> "Ok", graph |-> g]}

\* str::replacen(.., 1): only the first backslash becomes a slash.
normFirst(id) ==
    [i \in 1..Len(id) |-> IF i = IndexOf(id, "\\") THEN "/" ELSE id[i]]

\* migrate that rewrites one backslash of each edge endpoint per call and
\* never records the version it migrated to.
MigrateOneBackslash(g) ==
    LET found == ParseVersion(g.version)
    IN  IF ~found.ok THEN {[status |-> "VersionUnparseable", graph |-> g]}
        ELSE {[status |-> "Ok",
               graph  |-> [g EXCEPT !.edges =
                             [i \in 1..Len(g.edges) |->
                                [g.edges[i] EXCEPT !.source = normFirst(@),
                                                   !.target = normFirst(@)]]]]}

\* migrate: the results it can return, each with the graph it leaves.
Migrate(g) ==
    LET current == ParseVersion(CURRENT_VERSION)
        found   == ParseVersion(g.version)
    IN  IF ~found.ok THEN {[status |-> "VersionUnparseable", graph |-> g]}
        ELSE IF VersionLess(found, current)
        THEN {[status |-> "Ok", graph |-> [g2 EXCEPT !.version = CURRENT_VERSION]] :
                g2 \in IF VersionLess(found, V220)
                       THEN MigrateNormalizeEntityIds(g) ELSE {g}}
        ELSE {[status |-> "Ok", graph |-> g]}

\* Path::components: the pieces between the separators, the empty ones
\* (a repeated or trailing separator) and every "." but a leading one left
\* out; a leading separator is the root component, written "/".
Components(p) ==
    LET pieces   == SplitOn(p, "/")
        rooted   == p # <<>> /\ p[1] = "/"
        named(x) == x # <<>> /\ x # <<".">>
    IN  (IF rooted THEN << <<"/">> >> ELSE <<>>)
        \o (IF pieces[1] = <<".">> THEN << <<".">> >> ELSE <<>>)
        \o SelectSeq(pieces, named)

\* PathBuf equality, the one the keys of file_index are compared by: the
\* same components, as the same text has.
SamePath(a, b) == a = b \/ Components(a) = Components(b)

\* The order of two component lists: component by component, a list that is
\* the start of another first.  Of two different components the root is
\* before ".", "." before "..", ".." before a name, and two names are in the
\* order of their bytes.
RECURSIVE ComponentsLess(_, _)
ComponentsLess(ca, cb) ==
    LET rank(c) == IF c = <<"/">> THEN 1 ELSE IF c = <<".">> THEN 2
                   ELSE IF c = <<".", ".">> THEN 3 ELSE 4
    IN  IF ca = <<>> THEN cb # <<>>
        ELSE IF cb = <<>> THEN FALSE
        ELSE IF ca[1] = cb[1] THEN ComponentsLess(Tail(ca), Tail(cb))
        ELSE IF rank(ca[1]) # rank(cb[1]) THEN rank(ca[1]) < rank(cb[1])
        ELSE StrLess(ca[1], cb[1])

\* The paths of S in ascending order, the order of PathBuf being that of the
\* components, which cs gives for each path.
RECURSIVE InPathOrder(_, _)
InPathOrder(S, cs) ==
    IF S = {} THEN <<>>
    ELSE LET m == CHOOSE x \in S : \A y \in S \ {x} : ~ComponentsLess(cs[y], cs[x])
         IN  <<m>> \o InPathOrder(S \ {m}, cs)

\* The paths of S, the keys of one map and so no two of them the same path,
\* in ascending order.
SortedPaths(S) == InPathOrder(S, [p \in S |-> Components(p)])

\* The document is kept as the text orders it: the fields of a struct are
\* written in the order of their declaration, the same in every document, and
\* a record stands for them; the members of a map are a sequence of
\* <<key, value>> pairs in the order they are written.

\* The members of the map m under the keys in the order given.
Entries(m, keys) == [i \in 1..Len(keys) |-> <<keys[i], m[keys[i]]>>]

\* A map with string keys as the members of a JSON object: written in
\* ascending order of the keys (the output is "deterministic (sorted) pretty
\* JSON", whatever order the entries were inserted in).
Members(m) == Entries(m, SortedIds(DOMAIN m))

\* The map with string keys that a JSON object's members parse to, in
\* whatever order they are written; of two members with one key the later
\* one stays.
FromMembers(ms) ==
    [k \in {ms[i][1] : i \in 1..Len(ms)} |->
        ms[CHOOSE i \in 1..Len(ms) :
              ms[i][1] = k /\ \A j \in (i + 1)..Len(ms) : ms[j][1] # k][2]]

\* The map with PathBuf keys that a JSON object's members parse to: members
\* whose keys are the same path are one entry, which keeps the key as the
\* first of them spells it and the value of the last.
FromPathMembers(ms) ==
    LET firsts == {i \in 1..Len(ms) :
                     \A j \in 1..(i - 1) : ~SamePath(ms[j][1], ms[i][1])}
    IN  [k \in {ms[i][1] : i \in firsts} |->
            ms[CHOOSE i \in 1..Len(ms) :
                  /\ SamePath(ms[i][1], k)
                  /\ \A j \in (i + 1)..Len(ms) : ~SamePath(ms[j][1], k)][2]]

RECURSIVE NodeToJson(_)
NodeToJson(node) ==
    [name     |-> node.name,
     entities |-> node.entities,
     children |-> Members([c \in DOMAIN node.children |-> NodeToJson(node.children[c])])]

RECURSIVE NodeFromJson(_)
NodeFromJson(doc) ==
    [name     |-> doc.name,
     entities |-> doc.entities,
     children |-> [c \in DOMAIN FromMembers(doc.children) |->
                     NodeFromJson(FromMembers(doc.children)[c])]]

NoJson == [malformed |-> TRUE]

\* to_json: the document serialized from a clone whose edges are sorted.  The
\* timestamps and the metadata are written as the graph holds them, and the
\* members of file_index, whose keys are paths, in the order of the paths.
ToJson(g) ==
    [malformed  |-> FALSE,
     version    |-> g.version,
     created_at |-> g.created_at,
     updated_at |-> g.updated_at,
     metadata   |-> g.metadata,
     entities   |-> Members(g.entities),
     edges      |-> SortEdges(g.edges),
     hierarchy  |-> Members([n \in DOMAIN g.hierarchy |-> NodeToJson(g.hierarchy[n])]),
     file_index |-> Entries(g.file_index, SortedPaths(DOMAIN g.file_index))]

\* serde_json::from_str on a well-formed document.
ParseJson(doc) ==
    [version    |-> doc.version,
     created_at |-> doc.created_at,
     updated_at |-> doc.updated_at,
     metadata   |-> doc.metadata,
     entities   |-> FromMembers(doc.entities),
     edges      |-> doc.edges,
     hierarchy  |-> [n \in DOMAIN FromMembers(doc.hierarchy) |->
                       NodeFromJson(FromMembers(doc.hierarchy)[n])],
     file_index |-> FromPathMembers(doc.file_index)]

\* from_json with migrate run before validate_version.
FromJsonMigrateFirst(doc) ==
    IF doc.malformed THEN {[status |-> "ParseGraph", graph |-> NoJson]}
    ELSE {IF r.status = "Ok" /\ ValidateVersion(r.graph) # "Ok"
          THEN [status |-> ValidateVersion(r.graph), graph |-> NoJson]
          ELSE IF r.status = "Ok" THEN r ELSE [status |-> r.status, graph |-> NoJson] :
            r \in Migrate(ParseJson(doc))}

\* from_json: parse, validate_version, migrate; the results it can return.
FromJson(doc) ==
    IF doc.malformed THEN {[status |-> "ParseGraph", graph |-> NoJson]}
    ELSE LET g == ParseJson(doc)
         IN  IF ValidateVersion(g) # "Ok"
             THEN {[status |-> ValidateVersion(g), graph |-> NoJson]}
             ELSE Migrate(g)


\* ------------------------------------------------- loading persisted graphs

\* The version strings of the persisted graphs that are loaded: the current
\* one, older and newer ones, a pre-release, and strings that are no semver
\* version (two numbers, a numeric pre-release identifier with a leading
\* zero, a major of 2^64, free text).
VersionStrings ==
    { CURRENT_VERSION,
      <<"2", ".", "1", ".", "0">>,
      <<"2", ".", "0", ".", "3">>,
      <<"2", ".", "3", ".", "0">>,
      <<"2", ".", "1", "0", ".", "0">>,
      <<"2", ".", "2", ".", "0", "-", "r", "c">>,
      <<"1", ".", "0", ".", "0">>,
      <<"3", ".", "0", ".", "0">>,
      <<"2", ".", "2">>,
      <<"2", ".", "2", ".", "0", "-", "0", "1">>,
      <<"1", "8", "4", "4", "6", "7", "4", "4", "0", "7", "3", "7", "0", "9", "5", "5", "1", "6", "1", "6",
        ".", "0", ".", "0">>,
      <<"n", "o", "t", "-", "a", "-", "v", "e", "r", "s", "i", "o", "n">> }

\* The entity stored under key k, as the graph that wrote it held it.
StoredEntity(k) ==
    Entity(k, "Function", IF k = IdG THEN <<"g">> ELSE <<"f">>, FileABC,
           IF k = IdW THEN <<"w">> ELSE IF k = IdM THEN <<"m">> ELSE <<"g">>,
           <<>>, NoDeps)

EntityKeys == {IdW, IdM, IdG}

\* The ID lists found together in file_index[FileABC], in the top node and in
\* its child node.
RefPlacements ==
    { << <<IdW>>, <<IdW>>, <<IdW>> >>,
      << <<IdU, IdM>>, <<IdD>>, <<IdM>> >>,
      << <<>>, <<IdD>>, <<>> >>,
      << <<IdD, IdW>>, <<>>, <<IdU, IdW>> >> }

EdgeUniverse ==
    { Edge(IdW, IdD, "Invokes"), Edge(IdU, IdW, "Inherits"),
      Edge(NodeA, IdM, "Contains") }

EdgeLists == UNION {[1..n -> EdgeUniverse] : n \in 0..MaxEdges}

\* The persisted graphs that are loaded.  Each holds the timestamps and the
\* metadata its file gave, which neither migrate nor to_json changes.  The
\* graphs whose file a/b/c lists no entity index a second file, a-b, which is
\* after a/b/c as a path and before it as a string.
LoadedGraphs ==
    { [version    |-> v,
       created_at |-> "2025-01-01T00:00:00Z",
       updated_at |-> "2025-01-01T00:00:00Z",
       metadata   |-> [language |-> "rust", total_files |-> 0, total_entities |-> 0,
                       functional_areas |-> 0, total_edges |-> 0,
                       dependency_edges |-> 0, containment_edges |-> 0],
       entities   |-> [k \in ks |-> StoredEntity(k)],
       edges      |-> es,
       hierarchy  |-> (NodeA :> HierarchyNode(<<"A">>, rp[2],
                          (<<"B">> :> HierarchyNode(<<"B">>, rp[3], EmptyMap)))),
       file_index |-> IF rp[1] = <<>> THEN (FileABC :> <<>> @@ FileAB :> <<>>)
                      ELSE (FileABC :> rp[1])] :
      v \in VersionStrings, ks \in SUBSET EntityKeys, es \in EdgeLists,
      rp \in RefPlacements }

\* An operation: its name, the name of the one before it, its arguments.
Op(name, after, args) == [name |-> name, after |-> after, args |-> args]

SchemaInit ==
    /\ graph \in LoadedGraphs
    /\ prev = graph
    /\ op = Op("load", "none", <<>>)
    /\ ret = "Ok"
    /\ json = NoJson
    /\ steps = 0

\* validate_version(&graph)
ValidateVersionStep ==
    /\ prev' = graph
    /\ ret' = ValidateVersion(graph)
    /\ op' = Op("validate_version", op.name, <<>>)
    /\ UNCHANGED <<graph, json, steps>>

\* migrate(&mut graph)
MigrateStep ==
    \E r \in Migrate(graph) :
        /\ prev' = graph
        /\ graph' = r.graph
        /\ ret' = r.status
        /\ op' = Op("migrate", op.name, <<>>)
        /\ UNCHANGED <<json, steps>>

\* json = to_json(&graph)
ToJsonStep ==
    /\ prev' = graph
    /\ json' = ToJson(graph)
    /\ ret' = "Ok"
    /\ op' = Op("to_json", op.name, <<>>)
    /\ UNCHANGED <<graph, steps>>

\* graph = from_json(&json), the caller keeping its graph on an error
FromJsonStep ==
    \E r \in FromJson(json) :
        /\ prev' = graph
        /\ graph' = IF r.status = "Ok" THEN r.graph ELSE graph
        /\ ret' = r.status
        /\ op' = Op("from_json", op.name, <<>>)
        /\ UNCHANGED <<json, steps>>

SchemaNext ==
    \/ ValidateVersionStep
    \/ MigrateStep
    \/ ToJsonStep
    \/ FromJsonStep

SchemaSpec == SchemaInit /\ [][SchemaNext]_vars


\* ------------------------------------------- graph primitives (graph.rs)

PathA == <<"s", "/", "a">>
PathB == <<"s", "/", "b", "c">>
PathD == <<"t", "/", "d">>

\* The files of the fixture project, and the files of the later updates.
FixturePaths == {PathA, PathB}
EvoPaths == {PathA, PathB, PathD}

\* Canonical ID of a named entity: "<file>:<name>".
CanonicalId(file, name) == file \o <<":">> \o name

\* The raw entity the parser yields for function f or g of a file: every f
\* calls g and every g inherits from f.
RawEntity(file, name) ==
    [id |-> CanonicalId(file, name), kind |-> "Function", name |-> name, file |-> file,
     deps |-> IF name = <<"f">> THEN Deps({<<"g">>}, {}) ELSE Deps({}, {<<"f">>})]

RawEntities(paths) == {RawEntity(p, n) : p \in paths, n \in {<<"f">>, <<"g">>}}

\* RawEntity::into_entity: no features, no hierarchy_path.
IntoEntity(raw) == Entity(raw.id, raw.kind, raw.name, raw.file, <<>>, <<>>, raw.deps)

\* RPGraph::new: CURRENT_VERSION and empty collections.  The timestamps and
\* the metadata, which no step of the build or of the updates reads, are not
\* carried in the graphs that are built.
NewGraph ==
    [version |-> CURRENT_VERSION, entities |-> EmptyMap, edges |-> <<>>,
     hierarchy |-> EmptyMap, file_index |-> EmptyMap]

Range(seq) == {seq[i] : i \in 1..Len(seq)}

\* The sequence s without the elements of the set gone.
RECURSIVE Without(_, _)
Without(s, gone) ==
    IF s = <<>> THEN <<>>
    ELSE IF s[1] \in gone THEN Without(Tail(s), gone)
    ELSE <<s[1]>> \o Without(Tail(s), gone)

\* file_index.get(&file).cloned().unwrap_or_default(): the list held under the
\* key that is the same path as file, the empty list when there is none.
FileIndexGet(fi, file) ==
    LET same == {p \in DOMAIN fi : SamePath(p, file)}
    IN  IF same = {} THEN <<>> ELSE fi[CHOOSE p \in same : TRUE]

\* Path::file_name, an Option held in a sequence of at most one element: the
\* last component when it is a name.
FileName(p) ==
    LET cs == Components(p)
    IN  IF cs = <<>> \/ cs[Len(cs)] \in {<<"/">>, <<".">>, <<".", ".">>} THEN <<>>
        ELSE <<cs[Len(cs)]>>

\* The last dot of a file name that splits it into stem and extension: none
\* (0) when the name has no dot or its only dot is its first character.
SplitDot(name) ==
    LET dots == {i \in 1..Len(name) : name[i] = "."}
        last == CHOOSE i \in dots : \A j \in dots : j <= i
    IN  IF dots = {} \/ last = 1 THEN 0 ELSE last

\* Path::file_stem: the file name without its extension, empty for a path
\* without a file name.
FileStem(p) ==
    LET name == FileName(p)
    IN  IF name = <<>> THEN <<>>
        ELSE IF SplitDot(name[1]) = 0 THEN name[1]
        ELSE SubSeq(name[1], 1, SplitDot(name[1]) - 1)

RECURSIVE JoinPath(_)
\* The path of the components cs.
JoinPath(cs) ==
    IF cs = <<>> THEN <<>>
    ELSE IF Len(cs) = 1 THEN cs[1]
    ELSE IF cs[1] = <<"/">> THEN cs[1] \o JoinPath(Tail(cs))
    ELSE cs[1] \o <<"/">> \o JoinPath(Tail(cs))

\* Path::parent: the path without its last component.
DirOf(p) == JoinPath(SubSeq(Components(p), 1, Len(Components(p)) - 1))

\* insert_entity: upsert into entities; add the ID to the file's list unless
\* the list holds it.  The list is found by PathBuf equality, and a list
\* found stays under the key it has.
InsertEntity(g, e) ==
    LET same == {p \in DOMAIN g.file_index : SamePath(p, e.file)}
        key  == IF same = {} THEN e.file ELSE CHOOSE p \in same : TRUE
        ids  == IF same = {} THEN <<>> ELSE g.file_index[key]
    IN  [g EXCEPT
           !.entities   = [k \in DOMAIN g.entities \cup {e.id} |->
                              IF k = e.id THEN e ELSE g.entities[k]],
           !.file_index = [p \in DOMAIN g.file_index \cup {key} |->
                              IF p = key
                              THEN IF e.id \in Range(ids) THEN ids ELSE Append(ids, e.id)
                              ELSE g.file_index[p]]]

RECURSIVE InsertAll(_, _)
\* insert_entity for each entity of the sequence, in order.
InsertAll(g, es) ==
    IF es = <<>> THEN g ELSE InsertAll(InsertEntity(g, es[1]), Tail(es))

\* create_module_entities: a Module entity, its ID the file path, for each
\* file with a non-Module entity.
CreateModuleEntities(g) ==
    LET files == {g.entities[k].file : k \in {x \in DOMAIN g.entities :
                                                g.entities[x].kind # "Module"}}
    IN  InsertAll(g, [i \in 1..Cardinality(files) |->
                        LET f == SortedIds(files)[i]
                        IN  Entity(f, "Module", FileStem(f), f, <<>>, <<>>, NoDeps)])

NodeId(dir) == <<"h", ":">> \o dir

\* build_file_path_hierarchy: one node per directory, listing the entities
\* of the files in it.
BuildFilePathHierarchy(g) ==
    LET dirs == {DirOf(p) : p \in DOMAIN g.file_index}
        ents(d) == SortedIds({k \in DOMAIN g.entities : DirOf(g.entities[k].file) = d})
    IN  [g EXCEPT !.hierarchy =
           [n \in {NodeId(d) : d \in dirs} |->
              LET d == CHOOSE x \in dirs : NodeId(x) = n
              IN  HierarchyNode(d, ents(d), EmptyMap)]]

\* assign_hierarchy_ids: each entity's hierarchy_path is the node listing it.
AssignHierarchyIds(g) ==
    [g EXCEPT !.entities =
       [k \in DOMAIN g.entities |->
          IF \E n \in DOMAIN g.hierarchy : k \in Range(g.hierarchy[n].entities)
          THEN [g.entities[k] EXCEPT !.hierarchy_path =
                  CHOOSE n \in DOMAIN g.hierarchy : k \in Range(g.hierarchy[n].entities)]
          ELSE g.entities[k]]]

\* The edges of the set S as a sequence sorted by (source, target, kind).
RECURSIVE EdgeSeq(_)
EdgeSeq(S) ==
    IF S = {} THEN <<>>
    ELSE LET e == CHOOSE x \in S : TRUE IN InsertSorted(EdgeSeq(S \ {e}), e)

\* resolve_dependencies: an Invokes or Inherits edge for each raw reference
\* whose name exactly one entity carries; ambiguous and unknown names drop.
ResolveDependencies(g) ==
    LET named(n) == {k \in DOMAIN g.entities : g.entities[k].name = n}
        resolved(k, names, kind) ==
            {Edge(k, t, kind) : t \in UNION {IF Cardinality(named(n)) = 1 THEN named(n) ELSE {}
                                              : n \in names}}
        found == UNION {resolved(k, g.entities[k].deps.invokes, "Invokes")
                        \cup resolved(k, g.entities[k].deps.inherits, "Inherits")
                        : k \in DOMAIN g.entities}
    IN  [g EXCEPT !.edges = EdgeSeq(Range(g.edges) \cup found)]

\* materialize_containment_edges: Contains(node -> entity) for every entity
\* a node lists, not repeating an edge already there.
MaterializeContainmentEdges(g) ==
    LET cont == {Edge(n, k, "Contains") :
                   n \in DOMAIN g.hierarchy, k \in DOMAIN g.entities}
        mine == {e \in cont : e.target \in Range(g.hierarchy[e.source].entities)}
    IN  [g EXCEPT !.edges = EdgeSeq(Range(g.edges) \cup mine)]

\* ground_hierarchy: non-Contains edges with a missing endpoint are pruned.
GroundHierarchy(g) ==
    [g EXCEPT !.edges =
       Without(g.edges, {e \in Range(g.edges) :
                           /\ e.kind # "Contains"
                           /\ \/ e.source \notin DOMAIN g.entities
                              \/ e.target \notin DOMAIN g.entities})]

\* build_fixture_graph: insert the parsed entities, then the build pipeline.
BuildFixtureGraph(raws) ==
    LET byId     == [i \in 1..Cardinality(raws) |->
                       LET id == SortedIds({r.id : r \in raws})[i]
                       IN  IntoEntity(CHOOSE r \in raws : r.id = id)]
        inserted == InsertAll(NewGraph, byId)
        modules  == CreateModuleEntities(inserted)
        tree     == BuildFilePathHierarchy(modules)
        resolved == ResolveDependencies(tree)
        assigned == AssignHierarchyIds(resolved)
        contains == MaterializeContainmentEdges(assigned)
    IN  GroundHierarchy(contains)


\* ---------------------------------------------- evolution (evolution.rs)

\* The entities whose file has its components among comps.
FilesAmong(g, comps) == {k \in DOMAIN g.entities : Components(g.entities[k].file) \in comps}

\* The entities of the files in paths.
DeletedIds(g, paths) == FilesAmong(g, {Components(p) : p \in paths})

\* file_index without the IDs in gone, entries left empty dropped.
IndexWithout(fi, gone) ==
    [p \in {q \in DOMAIN fi : Without(fi[q], gone) # <<>>} |-> Without(fi[p], gone)]

\* Only the edges leaving a removed entity go, those reaching one stay.
EdgesWithoutSources(edges, gone) ==
    Without(edges, {e \in Range(edges) : e.kind # "Contains" /\ e.source \in gone})

\* The edges without the non-Contains edges touching an ID in gone.
EdgesWithout(edges, gone) ==
    Without(edges, {e \in Range(edges) :
                      e.kind # "Contains" /\ (e.source \in gone \/ e.target \in gone)})

RECURSIVE NodeWithout(_, _)
\* A hierarchy node without its references to the IDs in gone, at any depth.
NodeWithout(node, gone) ==
    [name     |-> node.name,
     entities |-> Without(node.entities, gone),
     children |-> [c \in DOMAIN node.children |-> NodeWithout(node.children[c], gone)]]

\* The graph apply_deletions leaves.
AfterDeletions(g, paths) ==
    LET gone == DeletedIds(g, paths)
    IN  [g EXCEPT
           !.entities   = [k \in DOMAIN g.entities \ gone |-> g.entities[k]],
           !.file_index = IndexWithout(g.file_index, gone),
           !.edges      = EdgesWithout(g.edges, gone),
           !.hierarchy  = [n \in DOMAIN g.hierarchy |-> NodeWithout(g.hierarchy[n], gone)]]

\* apply_deletions counting the deleted files that were indexed.
ApplyDeletionsCountsFiles(g, paths) ==
    [graph |-> AfterDeletions(g, paths),
     ret   |-> Cardinality(paths \cap DOMAIN g.file_index)]

\* apply_deletions(graph, paths): the graph it leaves and the count of
\* removed entities it returns.
ApplyDeletions(g, paths) ==
    [graph |-> AfterDeletions(g, paths), ret |-> Cardinality(DeletedIds(g, paths))]

\* The canonical ID after a rename: the file prefix old swapped for new.
SwapPrefix(id, old, new) == new \o SubSeq(id, Len(old) + 1, Len(id))

\* One (old_path, new_path) pair of apply_renames: [graph, files, entities].
\* The entities of old are stored again under their new IDs, and the list of
\* old is stored under the key new: an entity or a list that new held before
\* under the same key is replaced.
RenameIds(g, old, new, ids, moved, olds) ==
    LET remap == [k \in ids |-> SwapPrefix(k, old, new)]
    IN  IF ids = {} THEN [graph |-> g, files |-> 0, entities |-> 0]
        ELSE [graph |->
                [g EXCEPT
                   !.entities   = [k \in (DOMAIN g.entities \ ids) \cup {remap[x] : x \in ids} |->
                                     IF \E x \in ids : remap[x] = k
                                     THEN LET x == CHOOSE y \in ids : remap[y] = k
                                          IN  [g.entities[x] EXCEPT !.id = k, !.file = new]
                                     ELSE g.entities[k]],
                   !.file_index = [p \in (DOMAIN g.file_index \ olds) \cup {new} |->
                                     IF p = new THEN RemapList(moved, remap)
                                     ELSE g.file_index[p]],
                   !.edges      = [i \in 1..Len(g.edges) |->
                                     [g.edges[i] EXCEPT !.source = Remapped(@, remap),
                                                        !.target = Remapped(@, remap)]],
                   !.hierarchy  = [n \in DOMAIN g.hierarchy |->
                                     fix_hierarchy(g.hierarchy[n], remap)]],
              files |-> 1, entities |-> Cardinality(ids)]

RenameFile(g, old, new) ==
    RenameIds(g, old, new,
              {k \in DOMAIN g.entities : SamePath(g.entities[k].file, old)},
              FileIndexGet(g.file_index, old),
              {p \in DOMAIN g.file_index : SamePath(p, old)})

RECURSIVE ApplyRenames(_, _)
\* apply_renames(graph, renames): the pairs in order; the graph it leaves and
\* (files_migrated, entities_renamed).
ApplyRenames(g, renames) ==
    IF renames = <<>> THEN [graph |-> g, ret |-> <<0, 0>>]
    ELSE LET first == RenameFile(g, renames[1][1], renames[1][2])
             rest  == ApplyRenames(first.graph, Tail(renames))
         IN  [graph |-> rest.graph,
              ret   |-> <<first.files + rest.ret[1], first.entities + rest.ret[2]>>]

\* ------------------------------------------------ the incremental pipeline

\* build_fixture_graph() on a fixture project holding any of the functions.
Init ==
    /\ \E raws \in SUBSET RawEntities(FixturePaths) : graph = BuildFixtureGraph(raws)
    /\ prev = graph
    /\ op = Op("build", "none", <<>>)
    /\ ret = "Ok"
    /\ json = NoJson
    /\ steps = 0

\* graph.insert_entity(raw.into_entity()) for an entity of a new or changed file
InsertEntityStep ==
    /\ steps < MaxOps
    /\ \E raw \in RawEntities(EvoPaths) :
          /\ graph' = InsertEntity(graph, IntoEntity(raw))
          /\ op' = Op("insert_entity", op.name, [id |-> raw.id])
    /\ prev' = graph
    /\ ret' = "Ok"
    /\ steps' = steps + 1
    /\ UNCHANGED json

\* apply_deletions(&mut graph, paths)
ApplyDeletionsStep ==
    /\ steps < MaxOps
    /\ \E paths \in SUBSET EvoPaths \ {{}} :
          /\ LET out == ApplyDeletions(graph, paths)
             IN  graph' = out.graph /\ ret' = out.ret
          /\ op' = Op("apply_deletions", op.name, [paths |-> paths])
    /\ prev' = graph
    /\ steps' = steps + 1
    /\ UNCHANGED json

\* apply_renames(&mut graph, &[(old, new)]) for any pair of paths, new being
\* a path of the graph or not
ApplyRenamesStep ==
    /\ steps < MaxOps
    /\ \E old \in EvoPaths, new \in EvoPaths :
          /\ LET out == ApplyRenames(graph, <<<<old, new>>>>)
             IN  graph' = out.graph /\ ret' = out.ret
          /\ op' = Op("apply_renames", op.name, [old |-> old, new |-> new])
    /\ prev' = graph
    /\ steps' = steps + 1
    /\ UNCHANGED json

\* One of the public steps of the build, applied to the graph as it is.  The
\* updates are counted, and so is a step called on its own; a step that
\* continues a rebuild, called right after the step the rebuild has before it
\* (after), is not.
Rebuild(name, after, g) ==
    /\ steps < MaxOps \/ op.name = after
    /\ graph' = g
    /\ op' = Op(name, op.name, <<>>)
    /\ prev' = graph
    /\ ret' = "Ok"
    /\ steps' = IF op.name = after THEN steps ELSE steps + 1
    /\ UNCHANGED json

\* graph.hierarchy.clear()
ClearHierarchyStep ==
    Rebuild("hierarchy.clear", "none", [graph EXCEPT !.hierarchy = EmptyMap])

\* graph.create_module_entities()
CreateModuleEntitiesStep ==
    Rebuild("create_module_entities", "none", CreateModuleEntities(graph))

\* graph.build_file_path_hierarchy()
BuildFilePathHierarchyStep ==
    Rebuild("build_file_path_hierarchy", "hierarchy.clear", BuildFilePathHierarchy(graph))

\* resolve_dependencies(&mut graph)
ResolveDependenciesStep ==
    Rebuild("resolve_dependencies", "none", ResolveDependencies(graph))

\* graph.assign_hierarchy_ids()
AssignHierarchyIdsStep ==
    Rebuild("assign_hierarchy_ids", "build_file_path_hierarchy", AssignHierarchyIds(graph))

\* graph.materialize_containment_edges()
MaterializeContainmentEdgesStep ==
    Rebuild("materialize_containment_edges", "assign_hierarchy_ids",
            MaterializeContainmentEdges(graph))

\* ground_hierarchy(&mut graph)
GroundHierarchyStep ==
    Rebuild("ground_hierarchy", "materialize_containment_edges", GroundHierarchy(graph))

Next ==
    \/ InsertEntityStep
    \/ ApplyDeletionsStep
    \/ ApplyRenamesStep
    \/ ClearHierarchyStep
    \/ CreateModuleEntitiesStep
    \/ BuildFilePathHierarchyStep
    \/ ResolveDependenciesStep
    \/ AssignHierarchyIdsStep
    \/ MaterializeContainmentEdgesStep
    \/ GroundHierarchyStep

Spec == Init /\ [][Next]_vars


\* ---------------------------------------- apply_hierarchy (hierarchy.rs)

\* Entries of assignment maps processed in one run of the hierarchy builder.
MaxAssignments == 3

\* A file at the project root: its Module entity has the ID "m" and the name "m".
PathM == <<"m">>

\* The parsed entities of the project whose hierarchy is assigned: f in both
\* files, g in one, and a class named like the root file's Module ID.
HierRaws ==
    { RawEntity(PathM, <<"f">>), RawEntity(PathA, <<"f">>),
      RawEntity(PathA, <<"g">>), RawEntity(PathA, <<"m">>) }

\* Keys of assignment maps: an ID that is also a name, bare names, an entity
\* ID, the name of a Module, a key that matches nothing.
AssignKeys ==
    { <<"m">>, <<"f">>, <<"g">>, CanonicalId(PathA, <<"g">>), <<"a">>, <<"x">> }

\* Target paths of assignments.
AssignPaths == { <<"A">>, <<"A", "/", "B">> }

\* An assignments map in the order its entries are iterated: pairs
\* <<key, path>> with distinct keys.
AssignmentMaps(n) ==
    { a \in [1..n -> AssignKeys \X AssignPaths] :
        \A i, j \in 1..n : a[i][1] = a[j][1] => i = j }

\* name -> the IDs of the entities with that name.
NameToIds(g) ==
    [n \in {g.entities[k].name : k \in DOMAIN g.entities} |->
        {k \in DOMAIN g.entities : g.entities[k].name = n}]

\* Key resolution that looks the key up as a bare name before trying it as an
\* entity ID, so that a name carried by several entities is skipped at once.
ResolveNameFirst(g, name_to_ids, key) ==
    IF key \in DOMAIN name_to_ids
    THEN IF Cardinality(name_to_ids[key]) = 1 THEN name_to_ids[key] ELSE {}
    ELSE IF key \in DOMAIN g.entities THEN {key} ELSE {}

\* The entity an assignment key resolves to, as a set: the key when it is an
\* entity ID, else the one entity with that name, else nothing.
ResolveKey(g, name_to_ids, key) ==
    IF key \in DOMAIN g.entities THEN {key}
    ELSE IF key \in DOMAIN name_to_ids
         THEN IF Cardinality(name_to_ids[key]) = 1 THEN name_to_ids[key] ELSE {}
         ELSE {}

RECURSIVE NodeInsert(_, _, _)
\* The node with id appended to the entities of its descendant at segs,
\* the nodes on the way created when missing.
NodeInsert(node, segs, id) ==
    IF segs = <<>> THEN [node EXCEPT !.entities = Append(@, id)]
    ELSE LET c     == segs[1]
             child == IF c \in DOMAIN node.children THEN node.children[c]
                      ELSE HierarchyNode(c, <<>>, EmptyMap)
         IN  [node EXCEPT !.children =
                [x \in DOMAIN node.children \cup {c} |->
                   IF x = c THEN NodeInsert(child, Tail(segs), id)
                   ELSE node.children[x]]]

\* insert_into_hierarchy(path, entity_id): create or find the node identified
\* by path and append the entity ID.
InsertIntoHierarchy(g, path, id) ==
    LET segs == SplitOn(path, "/")
        top  == segs[1]
        root == IF top \in DOMAIN g.hierarchy THEN g.hierarchy[top]
                ELSE HierarchyNode(top, <<>>, EmptyMap)
    IN  [g EXCEPT !.hierarchy =
           [x \in DOMAIN g.hierarchy \cup {top} |->
              IF x = top THEN NodeInsert(root, Tail(segs), id)
              ELSE g.hierarchy[x]]]

\* Setting hierarchy_path without inserting the ID into the node.
AssignPathOnly(g, id, path) ==
    IF id \in DOMAIN g.entities
    THEN [g EXCEPT !.entities[id].hierarchy_path = path] ELSE g

\* entity.hierarchy_path = path (when the entity exists), then
\* insert_into_hierarchy(path, id).
AssignOne(g, id, path) ==
    InsertIntoHierarchy(
        IF id \in DOMAIN g.entities
        THEN [g EXCEPT !.entities[id].hierarchy_path = path] ELSE g,
        path, id)

RECURSIVE AssignSiblings(_, _, _)
AssignSiblings(g, ids, path) ==
    IF ids = <<>> THEN g
    ELSE AssignSiblings(AssignOne(g, ids[1], path), Tail(ids), path)

\* A Module assigned alone, its file siblings left out.
AssignModuleOnly(g, id, path) == AssignOne(g, id, path)

\* The Module branch: every ID file_index lists for the Module's file.
AssignFile(g, id, path) ==
    AssignSiblings(g, FileIndexGet(g.file_index, g.entities[id].file), path)

\* One entry of the assignments map.
ApplyAssignment(g, name_to_ids, key, path) ==
    LET found == ResolveKey(g, name_to_ids, key)
    IN  IF found = {} THEN g
        ELSE LET id == CHOOSE x \in found : TRUE
             IN  IF g.entities[id].kind = "Module"
                 THEN AssignFile(g, id, path)
                 ELSE AssignOne(g, id, path)

RECURSIVE ApplyEntries(_, _, _)
ApplyEntries(g, name_to_ids, entries) ==
    IF entries = <<>> THEN g
    ELSE ApplyEntries(ApplyAssignment(g, name_to_ids, entries[1][1], entries[1][2]),
                      name_to_ids, Tail(entries))

\* apply_hierarchy(&mut graph, &assignments), the entries in iteration order.
ApplyHierarchy(g, entries) == ApplyEntries(g, NameToIds(g), entries)

HierInit ==
    /\ \E raws \in SUBSET HierRaws : graph = BuildFixtureGraph(raws)
    /\ prev = graph
    /\ op = Op("build", "none", <<>>)
    /\ ret = "Ok"
    /\ json = NoJson
    /\ steps = 0

\* apply_hierarchy(&mut graph, &assignments)
ApplyHierarchyStep ==
    /\ \E n \in 1..(MaxAssignments - steps) :
          \E entries \in AssignmentMaps(n) :
             /\ graph' = ApplyHierarchy(graph, entries)
             /\ op' = Op("apply_hierarchy", op.name, entries)
             /\ steps' = steps + n
    /\ prev' = graph
    /\ ret' = "Ok"
    /\ UNCHANGED json

HierNext == ApplyHierarchyStep

HierSpec == HierInit /\ [][HierNext]_vars

\* ------------------------------------- semantic lifting (semantic_lifting.rs)

\* Lines of one LLM response, and features of one list.
MaxLines == 3
MaxFeatures == 3

\* char::is_whitespace, for the characters of Bytes.
Whitespace == {" ", "\t", "\n", "\f", "\r"}

\* str::trim
RECURSIVE TrimStart(_)
TrimStart(s) ==
    IF s # <<>> /\ s[1] \in Whitespace THEN TrimStart(Tail(s)) ELSE s

RECURSIVE TrimEnd(_)
TrimEnd(s) ==
    IF s # <<>> /\ s[Len(s)] \in Whitespace THEN TrimEnd(SubSeq(s, 1, Len(s) - 1)) ELSE s

Trim(s) == TrimEnd(TrimStart(s))

\* str::to_lowercase, for the characters of Bytes: A..Z become a..z.
LowerChar(c) == IF CharCode(c) \in 65..90 THEN Ascii[CharCode(c) + 1] ELSE c

ToLowercase(s) == [i \in 1..Len(s) |-> LowerChar(s[i])]

\* str::find(pat) in s[from..]: the position of the first occurrence of pat
\* that starts at or after from; 0 when there is none.
FindFrom(s, pat, from) ==
    LET at(i) == SubSeq(s, i, i + Len(pat) - 1) = pat
        last  == Len(s) - Len(pat) + 1
    IN  IF \E i \in from..last : at(i)
        THEN CHOOSE i \in from..last : at(i) /\ \A j \in from..(i - 1) : ~at(j)
        ELSE 0

OpenTag == <<"<", "t", "h", "i", "n", "k", ">">>
CloseTag == <<"<", "/", "t", "h", "i", "n", "k", ">">>

RECURSIVE strip_think_blocks(_)
\* strip_think_blocks: while the text holds "<think>", the first one is
\* removed with everything up to the first "</think>" after it, and the
\* text is searched again from its start; with no "</think>" after it the
\* text ends there.
strip_think_blocks(text) ==
    LET start == FindFrom(text, OpenTag, 1)
    IN  IF start = 0 THEN text
        ELSE LET close == FindFrom(text, CloseTag, start)
             IN  IF close = 0 THEN SubSeq(text, 1, start - 1)
                 ELSE strip_think_blocks(SubSeq(text, 1, start - 1)
                          \o SubSeq(text, close + Len(CloseTag), Len(text)))

\* str::lines: a line ends at "\n"; the "\r" before that "\n" is not part of
\* the line; what follows the last "\n" is a line unless it is empty.
Lines(text) ==
    LET pieces == SplitOn(text, "\n")
        n      == Len(pieces)
        ended(l) == IF l # <<>> /\ l[Len(l)] = "\r" THEN SubSeq(l, 1, Len(l) - 1) ELSE l
    IN  [i \in 1..(IF pieces[n] = <<>> THEN n - 1 ELSE n) |->
            IF i < n THEN ended(pieces[i]) ELSE pieces[i]]

\* line.starts_with("```"); "bq" is the backquote.
StartsWithFence(line) ==
    Len(line) >= 3 /\ \A i \in 1..3 : line[i] = "bq"

RECURSIVE NonEmpty(_)
\* filter(|f| !f.is_empty())
NonEmpty(items) ==
    IF items = <<>> THEN <<>>
    ELSE IF items[1] = <<>> THEN NonEmpty(Tail(items))
    ELSE <<items[1]>> \o NonEmpty(Tail(items))

\* The feature list of the text after the first '|'.
LineFeatures(rest) ==
    LET items == SplitOn(rest, ",")
    IN  NonEmpty([i \in 1..Len(items) |-> ToLowercase(Trim(items[i]))])

\* The map with key k set to v.
MapInsert(m, k, v) == [x \in DOMAIN m \cup {k} |-> IF x = k THEN v ELSE m[x]]

\* The loop body that drops a record whose feature list is empty.
ParseLineSkipStubs(features, rawLine) ==
    LET line == Trim(rawLine)
        bar  == IndexOf(line, "|")
        name == Trim(SubSeq(line, 1, bar - 1))
        list == LineFeatures(SubSeq(line, bar + 1, Len(line)))
    IN  IF line = <<>> \/ line[1] = "#" \/ StartsWithFence(line) \/ bar = 0
           \/ name = <<>> \/ list = <<>>
        THEN features
        ELSE MapInsert(features, name, list)

\* One line of the loop in parse_line_features.
ParseLine(features, rawLine) ==
    LET line == Trim(rawLine)
        bar  == IndexOf(line, "|")
        name == Trim(SubSeq(line, 1, bar - 1))
    IN  IF line = <<>> \/ line[1] = "#" \/ StartsWithFence(line) THEN features
        ELSE IF bar = 0 THEN features
        ELSE IF name = <<>> THEN features
        ELSE MapInsert(features, name, LineFeatures(SubSeq(line, bar + 1, Len(line))))

RECURSIVE ParseLines(_, _)
ParseLines(features, lines) ==
    IF lines = <<>> THEN features
    ELSE ParseLines(ParseLine(features, lines[1]), Tail(lines))

\* parse_line_features
ParseLineFeatures(text) == ParseLines(EmptyMap, Lines(strip_think_blocks(text)))

\* The feature list without sorting it.
Unsorted(feats) == feats

RECURSIVE InsertString(_, _)
InsertString(sorted, f) ==
    IF sorted = <<>> THEN <<f>>
    ELSE IF StrLess(f, sorted[1]) THEN <<f>> \o sorted
    ELSE <<sorted[1]>> \o InsertString(Tail(sorted), f)

RECURSIVE SortStrings(_)
\* feats.sort()
SortStrings(feats) ==
    IF feats = <<>> THEN <<>>
    ELSE InsertString(SortStrings(SubSeq(feats, 1, Len(feats) - 1)), feats[Len(feats)])

RECURSIVE Dedup(_)
\* feats.dedup(): of equal neighbours the first stays.
Dedup(feats) ==
    IF Len(feats) < 2 THEN feats
    ELSE IF feats[1] = feats[2] THEN Dedup(Tail(feats))
    ELSE <<feats[1]>> \o Dedup(Tail(feats))

\* normalize_features on one list: trim and lowercase each, sort, dedup,
\* retain the non-empty.
NormalizeList(feats) ==
    NonEmpty(Dedup(SortStrings([i \in 1..Len(feats) |-> ToLowercase(Trim(feats[i]))])))

\* normalize_features
NormalizeFeatures(features) ==
    [k \in DOMAIN features |-> NormalizeList(features[k])]

\* The lines an LLM response is made of: records (one with a mixed-case list,
\* a stub with a capital name, one with an empty item, an inner space and the
\* name of the first, one with a second '|' and a carriage return), and the
\* rest: blank, comment, no '|', no name, fence, think block in one line, the
\* two tags alone, a comment that mentions the opening tag, and an opening
\* tag split by a think block.
RecordLines ==
    { <<"a", " ", "|", " ", "P", ",", " ", "p">>,
      <<"B", "|">>,
      <<" ", "a", "|", "c", ",", ",", "a", " ", "b", " ">>,
      <<"c", "|", "|", "a", "\r">> }

OtherLines ==
    { <<" ">>,
      <<"#", "a", "|", "b">>,
      <<"a", "b">>,
      <<" ", "|", "b">>,
      <<"bq", "bq", "bq", "a", "|", "b">>,
      OpenTag \o <<"c", "|", "a">> \o CloseTag,
      OpenTag,
      CloseTag,
      <<"#">> \o OpenTag,
      <<"<", "t">> \o OpenTag \o CloseTag \o <<"h", "i", "n", "k", ">">> }

Responses == UNION {[1..n -> RecordLines \cup OtherLines] : n \in 0..MaxLines}

RECURSIVE JoinLines(_)
\* The lines as one text, "\n" between them.
JoinLines(lines) ==
    IF lines = <<>> THEN <<>>
    ELSE IF Len(lines) = 1 THEN lines[1]
    ELSE lines[1] \o <<"\n">> \o JoinLines(Tail(lines))

\* Feature strings as an LLM or a caller supplies them, and lists of them.
FeatureStrings ==
    { <<"b">>, <<"a">>, <<"B">>, <<"\n", "b", " ">>, <<>>, <<" ">> }

FeatureLists == UNION {[1..n -> FeatureStrings] : n \in 0..MaxFeatures}

FeatureMaps ==
    {(<<"a">> :> l) : l \in FeatureLists}
    \cup {(<<"a">> :> l) @@ (<<"B">> :> m) :
            l \in FeatureLists, m \in {<<>>, << <<"b">>, <<"a">>, <<"b">> >>}}

\* apply_features: every entity of the slice whose name is a key of the map
\* gets a copy of that key's list; here the slice is the graph's entities.
ApplyFeatures(entities, features) ==
    [k \in DOMAIN entities |->
        IF entities[k].name \in DOMAIN features
        THEN [entities[k] EXCEPT !.semantic_features = features[entities[k].name]]
        ELSE entities[k]]

RECURSIVE Concat(_)
\* flat_map(..).collect(): the lists one after another.
Concat(lists) == IF lists = <<>> THEN <<>> ELSE lists[1] \o Concat(Tail(lists))

\* aggregate_module_features: for each file whose index list names a Module
\* entity, the first one it names and the features of the other entities of
\* the list, sorted and deduplicated, make a pair unless there are no
\* features; each pair is written to its Module and the count of the pairs is
\* returned.  The pairs are made in the iteration order of the HashMap
\* file_index, so when the lists of several files name one Module first the
\* pair of any of those files may be the last written: the outcomes.
AggregateModuleFeatures(g) ==
    LET isModule(id) == id \in DOMAIN g.entities /\ g.entities[id].kind = "Module"
        modules(p)   == SelectSeq(g.file_index[p], isModule)
        known(id)    == id \in DOMAIN g.entities
        feats(p)     == LET ids == SelectSeq(g.file_index[p], known)
                        IN  Concat([i \in 1..Len(ids) |->
                                      IF ids[i] = modules(p)[1] THEN <<>>
                                      ELSE g.entities[ids[i]].semantic_features])
        written      == {p \in DOMAIN g.file_index : modules(p) # <<>> /\ feats(p) # <<>>}
        moduleOf     == {modules(p)[1] : p \in written}
        lastOf       == {f \in [moduleOf -> written] : \A m \in moduleOf : modules(f[m])[1] = m}
    IN  {[count |-> Cardinality(written),
          graph |-> [g EXCEPT !.entities =
                       [k \in DOMAIN g.entities |->
                          IF k \in moduleOf
                          THEN [g.entities[k] EXCEPT !.semantic_features =
                                  Dedup(SortStrings(feats(fileOf[k])))]
                          ELSE g.entities[k]]]] : fileOf \in lastOf}

\* The graph whose entities are lifted: file s/a with entities named B and c
\* and its Module, named a; file s/bc with an entity named a and its Module.
LiftGraph ==
    BuildFixtureGraph({RawEntity(PathA, <<"B">>), RawEntity(PathA, <<"c">>),
                       RawEntity(PathB, <<"a">>)})

\* The graph g, and g as read from a file that lists the Module of s/a (its
\* ID is its file) under s/bc too, ahead of the entities of s/bc.
ListedFirst(g, id, file) == [g EXCEPT !.file_index[file] = <<id>> \o @]

LiftGraphs(g) == {g, ListedFirst(g, PathA, PathB)}

\* An LLM response has arrived and is not parsed yet, or a feature map was
\* handed over by a caller.
LiftInit ==
    /\ \/ \E lines \in Responses :
             /\ op = Op("response", "none", lines)
             /\ ret = EmptyMap
       \/ /\ op = Op("features", "none", <<>>)
          /\ ret \in FeatureMaps
    /\ prev = ret
    /\ graph \in LiftGraphs(LiftGraph)
    /\ json = NoJson
    /\ steps = 0

\* features = parse_line_features(text), text the response that arrived
ParseLineFeaturesStep ==
    /\ op.name = "response"
    /\ ret' = ParseLineFeatures(JoinLines(op.args))
    /\ op' = Op("parse_line_features", op.name, op.args)
    /\ prev' = EmptyMap
    /\ UNCHANGED <<graph, json, steps>>

\* normalize_features(&mut features)
NormalizeFeaturesStep ==
    /\ op.name # "response"
    /\ ret' = NormalizeFeatures(ret)
    /\ prev' = ret
    /\ op' = Op("normalize_features", op.name, <<>>)
    /\ UNCHANGED <<graph, json, steps>>

\* apply_features(&mut entities, &features)
ApplyFeaturesStep ==
    /\ op.name # "response"
    /\ graph' = [graph EXCEPT !.entities = ApplyFeatures(graph.entities, ret)]
    /\ op' = Op("apply_features", op.name, <<>>)
    /\ UNCHANGED <<prev, ret, json, steps>>

\* count = aggregate_module_features(&mut graph); the count is kept with the
\* operation, ret staying the feature map.
AggregateModuleFeaturesStep ==
    /\ op.name # "response"
    /\ \E out \in AggregateModuleFeatures(graph) :
          /\ graph' = out.graph
          /\ op' = Op("aggregate_module_features", op.name, out.count)
    /\ UNCHANGED <<prev, ret, json, steps>>

LiftNext ==
    \/ ParseLineFeaturesStep
    \/ NormalizeFeaturesStep
    \/ ApplyFeaturesStep
    \/ AggregateModuleFeaturesStep

LiftSpec == LiftInit /\ [][LiftNext]_vars

\* ------------------------------------------------- RpgConfig::load (config.rs)

Settings ==
    {"batch_size", "max_batch_tokens", "hierarchy_chunk_size", "drift_threshold",
     "search_result_limit"}

\* An f64 by its bits.  A finite one is mant * 2^exp, mant written in digits:
\* 2^52 <= mant < 2^53 for a normal number, exp = -1074 and mant < 2^52 for a
\* subnormal one and for zero; the infinities and NaN have neither.
F64(class, neg, mant, exp) == [class |-> class, neg |-> neg, mant |-> mant, exp |-> exp]

\* A natural number wider than the checker's integers is held in limbs of
\* four decimal digits, the lowest first and the highest not zero.
Base == 10000

RECURSIVE Carry(_, _, _, _)
\* The entries lo..hi of v brought into 0..Base-1, the carry c coming in:
\* the limbs and the carry going out.
Carry(v, lo, hi, c) ==
    IF lo > hi THEN [limbs |-> <<>>, carry |-> c]
    ELSE IF lo = hi
    THEN [limbs |-> <<(v[lo] + c) % Base>>, carry |-> (v[lo] + c) \div Base]
    ELSE LET mid  == (lo + hi) \div 2
             low  == Carry(v, lo, mid, c)
             high == Carry(v, mid + 1, hi, low.carry)
         IN  [limbs |-> low.limbs \o high.limbs, carry |-> high.carry]

\* The number whose limbs, before the carries are passed on, are v.
WithCarry(r) == r.limbs \o <<r.carry % Base, r.carry \div Base>>

NoZeroOnTop(all) ==
    LET used == {i \in 1..Len(all) : all[i] # 0}
    IN  SubSeq(all, 1, IF used = {} THEN 0 ELSE CHOOSE i \in used : \A j \in used : j <= i)

Limbs(v) == NoZeroOnTop(WithCarry(Carry(v, 1, Len(v), 0)))

BigAdd(a, b) ==
    Limbs([i \in 1..(IF Len(a) > Len(b) THEN Len(a) ELSE Len(b)) |->
             (IF i <= Len(a) THEN a[i] ELSE 0) + (IF i <= Len(b) THEN b[i] ELSE 0)])

\* a - b for a >= b.
BigSub(a, b) == Limbs([i \in 1..Len(a) |-> a[i] - (IF i <= Len(b) THEN b[i] ELSE 0)])

\* a * m for m <= 2^16.
BigTimes(a, m) == Limbs([i \in 1..Len(a) |-> a[i] * m])

BigLess(a, b) ==
    \/ Len(a) < Len(b)
    \/ /\ Len(a) = Len(b)
       /\ \E i \in 1..Len(a) : a[i] < b[i] /\ \A j \in (i + 1)..Len(a) : a[j] = b[j]

RECURSIVE TimesPow2(_, _)
\* a * 2^k, a itself for k <= 0.
TimesPow2(a, k) ==
    IF a = <<>> \/ k <= 0 THEN a
    ELSE IF k <= 16 THEN BigTimes(a, 2^k)
    ELSE TimesPow2(TimesPow2(a, k \div 2), k - k \div 2)

\* a * 10^k
TimesPow10(a, k) ==
    IF a = <<>> THEN <<>> ELSE [i \in 1..(k \div 4) |-> 0] \o BigTimes(a, 10^(k % 4))

\* The number written in the digits s, and the digits of the number a.
BigOf(s) ==
    LET t == TrimZeros(s)
        d(i) == IF i >= 1 THEN DigitVal(t[i]) ELSE 0
    IN  [i \in 1..((Len(t) + 3) \div 4) |->
           LET u == Len(t) - 4 * (i - 1)
           IN  d(u) + 10 * d(u - 1) + 100 * d(u - 2) + 1000 * d(u - 3)]

DigitChar(n) == CHOOSE c \in Digits : DigitVal(c) = n

DigitsOf(a) ==
    LET all == [i \in 1..(4 * Len(a)) |->
                  LET limb == a[Len(a) - ((i - 1) \div 4)]
                  IN  DigitChar((limb \div 10^(3 - ((i - 1) % 4))) % 10)]
    IN  IF a = <<>> THEN <<"0">> ELSE TrimZeros(all)

\* The decimal digit of a that is worth 10^k, and a without its k lowest
\* decimal digits.
DigitAt(a, k) ==
    IF (k \div 4) + 1 > Len(a) THEN 0 ELSE (a[(k \div 4) + 1] \div 10^(k % 4)) % 10

DivPow10(a, k) ==
    LET at(i) == IF i <= Len(a) THEN a[i] ELSE 0
        drop  == k \div 4
        cut   == 10^(k % 4)
    IN  Limbs([i \in 1..(Len(a) - drop) |->
                 (at(i + drop) \div cut) + (at(i + 1 + drop) % cut) * (Base \div cut)])

RECURSIVE LongDiv(_, _, _, _)
\* The digit t put before the digits of the rest of the division.
WithDigit(t, rest) == [quot |-> <<DigitChar(t)>> \o rest.quot, rem |-> rest.rem]

\* One digit of the quotient: cur is what is left with the next digit of the
\* dividend brought down, t the digit.
LongDivDigit(cur, t, num, times, p) ==
    WithDigit(t, LongDiv(BigSub(cur, times[t + 1]), num, times, p - 1))

\* The digit: how often den is in cur.
QuotDigit(cur, times) ==
    CHOOSE n \in 0..9 : ~BigLess(cur, times[n + 1]) /\ BigLess(cur, times[n + 2])

LongDivStep(cur, num, times, p) == LongDivDigit(cur, QuotDigit(cur, times), num, times, p)

\* Long division: rem is what is left of the digits of num above 10^p, and
\* times[n + 1] = n * den for n in 0..10.  The digits of the quotient from
\* the one worth 10^p down, and the remainder.
LongDiv(rem, num, times, p) ==
    IF p < 0 THEN [quot |-> <<>>, rem |-> rem]
    ELSE LongDivStep(BigAdd(BigTimes(rem, 10), <<DigitAt(num, p)>>), num, times, p)

\* num divided by den, for num < den * 10^(p + 1): the p + 1 digits of the
\* quotient and the remainder.
DivMod(num, den, p) ==
    LongDiv(DivPow10(num, p + 1), num, [n \in 1..11 |-> BigTimes(den, n - 1)], p)

\* The f64 of mantissa q and exponent e: 2^53 is 2^52 with the next exponent,
\* and what is above the largest exponent is an infinity.
Pack(neg, e, q, two53) ==
    IF q = two53
    THEN IF e + 1 > 971 THEN F64("inf", neg, <<>>, 0)
         ELSE F64("finite", neg, DigitsOf(TimesPow2(<<1>>, 52)), e + 1)
    ELSE IF e > 971 THEN F64("inf", neg, <<>>, 0)
    ELSE F64("finite", neg, DigitsOf(q), e)

\* The quotient q with remainder rem of a division by den, rounded to the
\* nearest integer, a tie going to the even one.
RoundHalfEven(q, twice, den) ==
    IF BigLess(den, twice) \/ (twice = den /\ q # <<>> /\ q[1] % 2 = 1)
    THEN BigAdd(q, <<1>>) ELSE q

RoundQuotient(qr, den) == RoundHalfEven(BigOf(qr.quot), BigTimes(qr.rem, 2), den)

\* The f64 nearest to n / m whose last bit of mantissa is worth 2^e.
WithLastBit(neg, n, m, e) ==
    Pack(neg, e,
         RoundQuotient(DivMod(TimesPow2(n, 0 - e), TimesPow2(m, e), 15), TimesPow2(m, e)),
         TimesPow2(<<1>>, 53))

\* For n0 / m0 in [1, 2^7): the k with 2^k <= n0 / m0 < 2^(k + 1).
Order(n0, m0) ==
    CHOOSE k \in 0..6 : ~BigLess(n0, TimesPow2(m0, k)) /\ BigLess(n0, TimesPow2(m0, k + 1))

\* The exponent of the last bit of the mantissa of a value in [2^b, 2^(b+1)):
\* 52 below b, and never below that of the subnormal numbers.
LastBit(b) == IF b - 52 < 0 - 1074 THEN 0 - 1074 ELSE b - 52

\* The f64 nearest to n / m, for 2^b0 <= n / m < 2^(b0 + 7).
NearestRatio(neg, n, m, b0) ==
    WithLastBit(neg, n, m, LastBit(b0 + Order(TimesPow2(n, 0 - b0), TimesPow2(m, b0))))

\* A power of two not above a number of d + 1 decimal digits before the
\* point (d < 0: with -d - 1 zeros after it) and within six of its order.
Log2Below(d) ==
    IF d >= 0 THEN (d * 33219) \div 10000
    ELSE 0 - (((0 - d) * 33220 + 9999) \div 10000)

\* The f64 nearest to digits * 10^exp10, a tie going to the even mantissa
\* (the decimal-to-float conversion of core::num::dec2flt): digits are
\* written without leading zeros and are not all zero.
NearestF64(neg, digits, exp10) ==
    IF Len(digits) + exp10 > 310 THEN F64("inf", neg, <<>>, 0)
    ELSE IF Len(digits) + exp10 < 0 - 324 THEN F64("finite", neg, <<"0">>, 0 - 1074)
    ELSE NearestRatio(neg,
                      IF exp10 > 0 THEN TimesPow10(BigOf(digits), exp10) ELSE BigOf(digits),
                      IF exp10 < 0 THEN TimesPow10(<<1>>, 0 - exp10) ELSE <<1>>,
                      Log2Below(Len(digits) + exp10 - 1))

\* drift_threshold is an f64 (default 0.5); the others are usize, written in
\* digits without leading zeros.
Default ==
    [batch_size |-> <<"5", "0">>, max_batch_tokens |-> <<"8", "0", "0", "0">>,
     hierarchy_chunk_size |-> <<"5", "0">>,
     drift_threshold |-> F64("finite", FALSE,
             <<"4", "5", "0", "3", "5", "9", "9", "6", "2", "7", "3", "7", "0", "4", "9", "6">>,
             0 - 53),
     search_result_limit |-> <<"1", "0">>]

\* The environment variable that overrides a setting, and the type its value
\* is parsed as.
EnvVar ==
    [batch_size |-> "RPG_BATCH_SIZE", max_batch_tokens |-> "RPG_MAX_BATCH_TOKENS",
     hierarchy_chunk_size |-> "RPG_HIERARCHY_CHUNK_SIZE",
     drift_threshold |-> "RPG_DRIFT_THRESHOLD",
     search_result_limit |-> "RPG_SEARCH_LIMIT"]

TypeOf(setting) == IF setting = "drift_threshold" THEN "f64" ELSE "usize"

NotParsed == [ok |-> FALSE, value |-> <<>>]

\* <usize as FromStr>::from_str on a 64-bit target: digits after an optional
\* '+', leading zeros allowed, at most usize::MAX.
ParseUsize(s) ==
    LET body == IF s # <<>> /\ s[1] = "+" THEN Tail(s) ELSE s
        num  == IF TrimZeros(body) = <<>> THEN <<"0">> ELSE TrimZeros(body)
    IN  IF body # <<>> /\ AllDigits(body) /\ ~NumLess(U64Max, num)
        THEN [ok |-> TRUE, value |-> num]
        ELSE NotParsed

\* The exponent's digits as dec2flt reads them, left to right: a digit is
\* taken in (exponent = 10 * exponent + digit) only while the exponent is below
\* 0x10000, and the digits after that are passed over.  Leading zeros leave
\* the exponent at 0; of the digits t after them, four always stay below
\* 0x10000, the fifth is taken in, and a sixth only when five stayed below it.
ExpNumber(t) ==
    IF Len(t) <= 5 THEN NumVal(t)
    ELSE IF NumVal(SubSeq(t, 1, 5)) >= 65536 THEN NumVal(SubSeq(t, 1, 5))
    ELSE NumVal(SubSeq(t, 1, 6))

\* <f64 as FromStr>::from_str:
\*   Float  ::= Sign? ( 'inf' | 'infinity' | 'nan' | Number )
\*   Number ::= ( Digit+ | Digit+ '.' Digit* | Digit* '.' Digit+ ) Exp?
\*   Exp    ::= 'e' Sign? Digit+
\* in either case of the letters; the value is the f64 nearest to the number
\* written, with the exponent as ExpNumber reads it.
ParseF64(s) ==
    LET signed == s # <<>> /\ s[1] \in {"+", "-"}
        neg    == signed /\ s[1] = "-"
        body   == IF signed THEN Tail(s) ELSE s
        low    == [i \in 1..Len(body) |->
                     IF CharCode(body[i]) \in 65..90
                     THEN Ascii[CharCode(body[i]) + 1] ELSE body[i]]
        e      == IndexOf(low, "e")
        num    == IF e = 0 THEN low ELSE SubSeq(low, 1, e - 1)
        exps   == IF e = 0 THEN <<>> ELSE SubSeq(low, e + 1, Len(low))
        eneg   == exps # <<>> /\ exps[1] = "-"
        edig   == IF exps # <<>> /\ exps[1] \in {"+", "-"} THEN Tail(exps) ELSE exps
        dot    == IndexOf(num, ".")
        int    == IF dot = 0 THEN num ELSE SubSeq(num, 1, dot - 1)
        frac   == IF dot = 0 THEN <<>> ELSE SubSeq(num, dot + 1, Len(num))
        isNum  == /\ AllDigits(int) /\ AllDigits(frac)
                  /\ (int # <<>> \/ frac # <<>>)
                  /\ (e # 0 => edig # <<>> /\ AllDigits(edig))
        digits == TrimZeros(int \o frac)
        eval   == ExpNumber(TrimZeros(edig))
        exp10  == (IF eneg THEN 0 - eval ELSE eval) - Len(frac)
    IN  IF low \in {<<"i", "n", "f">>, <<"i", "n", "f", "i", "n", "i", "t", "y">>}
        THEN [ok |-> TRUE, value |-> F64("inf", neg, <<>>, 0)]
        ELSE IF low = <<"n", "a", "n">>
        THEN [ok |-> TRUE, value |-> F64("nan", neg, <<>>, 0)]
        ELSE IF ~isNum THEN NotParsed
        ELSE IF digits = <<>>
        THEN [ok |-> TRUE, value |-> F64("finite", neg, <<"0">>, 0 - 1074)]
        ELSE [ok |-> TRUE, value |-> NearestF64(neg, digits, exp10)]

ParseAs(type, s) == IF type = "f64" THEN ParseF64(s) ELSE ParseUsize(s)

\* An override that puts the default back when the value does not parse.
EnvOverrideOrDefault(env, setting, target) ==
    IF EnvVar[setting] \in DOMAIN env
    THEN LET parsed == ParseAs(TypeOf(setting), env[EnvVar[setting]])
         IN  IF parsed.ok THEN parsed.value ELSE Default[setting]
    ELSE target

\* env_override(var, &mut target): the field after the call.
env_override(env, setting, target) ==
    IF EnvVar[setting] \in DOMAIN env
    THEN LET parsed == ParseAs(TypeOf(setting), env[EnvVar[setting]])
         IN  IF parsed.ok THEN parsed.value ELSE target
    ELSE target

\* toml::from_str with #[serde(default)]: the settings the file gives, the
\* default for the others.
FromToml(given) ==
    [s \in Settings |-> IF s \in DOMAIN given THEN given[s] ELSE Default[s]]

\* RpgConfig::load: an error, or Ok with the configuration.
Load(file, env) ==
    IF file.kind \in {"unreadable", "malformed"}
    THEN [status |-> "Err", config |-> EmptyMap]
    ELSE LET config == IF file.kind = "missing" THEN Default ELSE FromToml(file.given)
         IN  [status |-> "Ok",
              config |-> [s \in Settings |-> env_override(env, s, config[s])]]

\* What .rpg/config.toml gives a setting when it names it.
FileValue ==
    [batch_size |-> <<"6", "4">>, max_batch_tokens |-> <<"2", "4", "0", "0", "0">>,
     hierarchy_chunk_size |-> <<"3", "2">>,
     drift_threshold |-> F64("finite", FALSE,
             <<"5", "4", "0", "4", "3", "1", "9", "5", "5", "2", "8", "4", "4", "5", "9", "5">>,
             0 - 54),
     search_result_limit |-> <<"2", "0">>]

\* The config file: absent, not readable, not valid TOML for RpgConfig, or
\* naming some of the settings.
ConfigFiles ==
    {[kind |-> k, given |-> EmptyMap] : k \in {"missing", "unreadable", "malformed"}}
    \cup {[kind |-> "present", given |-> [s \in named |-> FileValue[s]]] :
            named \in SUBSET Settings}

\* Values an environment variable can hold, by the type of its setting.
EnvValues(type) ==
    IF type = "f64"
    THEN { <<"0", ".", "7">>, <<"-", "1">>, <<"x">>, <<"0", ".", "5", "0">>,
           <<"I", "n", "f">>, <<"7", "0", "0", "0", "0", "0", "0", "0", "0", "0", "0", "0", "0", "0", "0", "0",
             "0", "1", "e", "-", "1", "8">> }
    ELSE { <<"7">>, <<"-", "1">>, [U64Max EXCEPT ![Len(U64Max)] = "6"] }

\* The environments: each of the five variables unset or set to a value.
Environments ==
    UNION {{env \in [{EnvVar[s] : s \in set} -> UNION {EnvValues(TypeOf(s)) : s \in Settings}] :
              \A s \in set : env[EnvVar[s]] \in EnvValues(TypeOf(s))} :
           set \in SUBSET Settings}

ConfigInit ==
    /\ \E file \in ConfigFiles, env \in Environments :
          op = Op("start", "none", [file |-> file, env |-> env])
    /\ ret = "none"
    /\ prev = "none"
    /\ graph = NewGraph
    /\ json = NoJson
    /\ steps = 0

\* RpgConfig::load(project_root)
LoadStep ==
    /\ op.name = "start"
    /\ ret' = Load(op.args.file, op.args.env)
    /\ op' = Op("load", op.name, op.args)
    /\ UNCHANGED <<graph, prev, json, steps>>

ConfigNext == LoadStep

ConfigSpec == ConfigInit /\ [][ConfigNext]_vars

\* ------------------------------- parse_files_parallel (rpg-parser lib.rs)

\* Bound: the number of files handed to one call.
MaxFiles == 2

\* Path::extension, as an Option held in a sequence of at most one element:
\* what follows the last dot of the file name; none when the path has no
\* file name, the name has no dot or its only dot is its first character.
Extension(rel_path) ==
    LET name == FileName(rel_path)
    IN  IF name = <<>> \/ SplitDot(name[1]) = 0 THEN <<>>
        ELSE <<SubSeq(name[1], SplitDot(name[1]) + 1, Len(name[1]))>>

\* Language::from_extension, an Option likewise: the supported languages.
FromExtension(ext) ==
    CASE ext = <<"p", "y">>           -> <<"Python">>
      [] ext = <<"r", "s">>           -> <<"Rust">>
      [] ext = <<"t", "s">>           -> <<"TypeScript">>
      [] ext = <<"j", "s">>           -> <<"JavaScript">>
      [] ext = <<"g", "o">>           -> <<"Go">>
      [] ext = <<"j", "a", "v", "a">> -> <<"Java">>
      [] ext = <<"c">>                -> <<"C">>
      [] ext = <<"c", "p", "p">>      -> <<"Cpp">>
      [] OTHER                        -> <<>>

\* extract_entities: one raw entity per definition of the source, in source
\* order, its ID assembled from the file and the definition's name.  A source
\* is held as the sequence of its definitions, each a kind and a name.
ExtractEntities(rel_path, source, language) ==
    [i \in 1..Len(source) |->
       [RawEntity(rel_path, source[i].name) EXCEPT !.kind = source[i].kind]]

\* The closure of flat_map: the entities of one (relative_path, source_code)
\* pair, none when the extension maps to no language.
ParseFile(file) ==
    LET ext  == Extension(file.rel_path)
        lang == IF ext = <<>> THEN <<>> ELSE FromExtension(ext[1])
    IN  IF lang # <<>> THEN ExtractEntities(file.rel_path, file.source, lang[1])
        ELSE <<>>

RECURSIVE Collect(_)
\* collect into a Vec: the per-file results one after another, in the order
\* of the input files, whichever task finished first.
Collect(outs) ==
    IF outs = <<>> THEN <<>> ELSE outs[1].out \o Collect(Tail(outs))

\* The calls modelled: up to MaxFiles files with distinct paths, the
\* extension known, unknown or absent, the path written with a separator at
\* its end or without, the source empty, with one or two
\* definitions, or with a function and a class of the same name.
ParseInputs ==
    LET def(kind, name) == [kind |-> kind, name |-> name]
        paths   == {<<"s", "/", "a", ".", "p", "y">>, <<"b", ".", "r", "s">>,
                    <<"s", "/", "c", ".", "x">>, <<"s", "/", "d">>,
                    <<"s", "/", "a", ".", "p", "y", "/">>}
        sources == {<<>>, <<def("Function", <<"f">>)>>,
                    <<def("Function", <<"f">>), def("Function", <<"g">>)>>,
                    <<def("Function", <<"f">>), def("Class", <<"f">>)>>}
        files   == {[rel_path |-> p, source |-> s] : p \in paths, s \in sources}
    IN  {fs \in UNION {[1..n -> files] : n \in 1..MaxFiles} :
           \A i, j \in DOMAIN fs : i # j => ~SamePath(fs[i].rel_path, fs[j].rel_path)}

\* Before the call: the files, one pending task per file, and a new graph.
\* ret holds the tasks' results, prev the graph that inserting the collected
\* entities in the order collected gives.
ParseInit ==
    /\ \E files \in ParseInputs :
        /\ op = Op("parse_files_parallel", "none", files)
        /\ ret = [i \in DOMAIN files |-> [done |-> FALSE, out |-> <<>>]]
    /\ graph = NewGraph
    /\ prev = NewGraph
    /\ json = NoJson
    /\ steps = 0

\* One per-file task completes; rayon runs the tasks in any order.
ParseFileStep ==
    /\ op.name = "parse_files_parallel"
    /\ \E i \in DOMAIN ret :
        /\ ~ret[i].done
        /\ ret' = [ret EXCEPT ![i] = [done |-> TRUE, out |-> ParseFile(op.args[i])]]
    /\ UNCHANGED <<graph, prev, op, json, steps>>

\* Every task has completed: parse_files_parallel returns the collected Vec.
CollectStep ==
    /\ op.name = "parse_files_parallel"
    /\ \A i \in DOMAIN ret : ret[i].done
    /\ ret' = Collect(ret)
    /\ prev' = InsertAll(NewGraph, [i \in 1..Len(Collect(ret)) |-> IntoEntity(Collect(ret)[i])])
    /\ op' = Op("collect", op.name, op.args)
    /\ UNCHANGED <<graph, json, steps>>

\* The caller passes one of the raw entities not yet inserted to
\* insert_entity, taking them in any order.
InsertParsedStep ==
    /\ op.name \in {"collect", "insert_entity"}
    /\ \E i \in 1..Len(ret) :
        /\ graph' = InsertEntity(graph, IntoEntity(ret[i]))
        /\ ret' = SubSeq(ret, 1, i - 1) \o SubSeq(ret, i + 1, Len(ret))
    /\ op' = Op("insert_entity", op.name, op.args)
    /\ steps' = steps + 1
    /\ UNCHANGED <<prev, json>>

ParseNext ==
    \/ ParseFileStep
    \/ CollectStep
    \/ InsertParsedStep

ParseSpec == ParseInit /\ [][ParseNext]_vars

\* ------------------------------------------------------ property helpers

Current == ParseVersion(CURRENT_VERSION)

\* How many times e occurs in the sequence s.
Occurrences(s, e) == Cardinality({i \in 1..Len(s) : s[i] = e})

RECURSIVE NodeRefs(_)
\* Every entity ID a hierarchy node or one of its descendants lists.
NodeRefs(node) ==
    {node.entities[i] : i \in 1..Len(node.entities)}
    \cup UNION {NodeRefs(node.children[c]) : c \in DOMAIN node.children}

\* Every ID the graph holds outside the entities map.
References(g) ==
    UNION {{g.file_index[p][i] : i \in 1..Len(g.file_index[p])} : p \in DOMAIN g.file_index}
    \cup {g.edges[i].source : i \in 1..Len(g.edges)}
    \cup {g.edges[i].target : i \in 1..Len(g.edges)}
    \cup UNION {NodeRefs(g.hierarchy[n]) : n \in DOMAIN g.hierarchy}

RECURSIVE NodeRefsMoved(_, _, _, _)
\* Every entry of the old node that was `old` is `new` in the new node, at
\* every depth.
NodeRefsMoved(oldNode, newNode, old, new) ==
    /\ Len(newNode.entities) = Len(oldNode.entities)
    /\ \A i \in 1..Len(oldNode.entities) :
          oldNode.entities[i] = old => newNode.entities[i] = new
    /\ DOMAIN newNode.children = DOMAIN oldNode.children
    /\ \A c \in DOMAIN oldNode.children :
          NodeRefsMoved(oldNode.children[c], newNode.children[c], old, new)

\* Every edge endpoint and hierarchy entry that is `old` in g0 is `new` in g1.
GraphRefsMoved(g0, g1, old, new) ==
    /\ Len(g1.edges) = Len(g0.edges)
    /\ \A i \in 1..Len(g0.edges) :
          /\ g0.edges[i].source = old => g1.edges[i].source = new
          /\ g0.edges[i].target = old => g1.edges[i].target = new
    /\ DOMAIN g1.hierarchy = DOMAIN g0.hierarchy
    /\ \A n \in DOMAIN g0.hierarchy :
          NodeRefsMoved(g0.hierarchy[n], g1.hierarchy[n], old, new)

\* Every reference to `old` in g0 is a reference to `new` in g1, the
\* file_index keeping its keys.
RefsMoved(g0, g1, old, new) ==
    /\ DOMAIN g1.file_index = DOMAIN g0.file_index
    /\ \A p \in DOMAIN g0.file_index :
          /\ Len(g1.file_index[p]) = Len(g0.file_index[p])
          /\ \A i \in 1..Len(g0.file_index[p]) :
                g0.file_index[p][i] = old => g1.file_index[p][i] = new
    /\ GraphRefsMoved(g0, g1, old, new)

\* ---------------------------------------------------- evolution properties

\* The first two loops of verify_graph_integrity: each key of entities is
\* in the list file_index holds for the entity's file, and each listed ID is
\* a key of entities.
IndexAgreement(g) ==
    /\ \A k \in DOMAIN g.entities :
          \E p \in DOMAIN g.file_index :
              SamePath(p, g.entities[k].file) /\ k \in Range(g.file_index[p])
    /\ \A p \in DOMAIN g.file_index :
          \A id \in Range(g.file_index[p]) : id \in DOMAIN g.entities

\* I1 as the specification words it: the id field of each entity is listed
\* under the entity's file, and each listed ID is an entity of that file.
I1(g) ==
    /\ \A k \in DOMAIN g.entities :
          /\ g.entities[k].file \in DOMAIN g.file_index
          /\ g.entities[k].id \in Range(g.file_index[g.entities[k].file])
    /\ \A p \in DOMAIN g.file_index :
          \A id \in Range(g.file_index[p]) :
              id \in DOMAIN g.entities /\ g.entities[id].file = p

\* I2: both endpoints of every non-Contains edge are entities.
EdgeIntegrity(g) ==
    \A e \in Range(g.edges) :
        e.kind # "Contains" =>
            e.source \in DOMAIN g.entities /\ e.target \in DOMAIN g.entities

\* C1 as claimed: index agreement (I1) holds in the built graph and after
\* every sequence of insert_entity, apply_deletions and apply_renames calls:
\* each entity is listed under its file, and each ID listed under a path is
\* an entity of that path.
C1_IndexAgreement == IndexAgreement(graph) /\ I1(graph)

\* C2: edge integrity (I2) holds in the built graph and after every sequence
\* of insert_entity, apply_deletions and apply_renames calls.
C2_EdgeIntegrity == EdgeIntegrity(graph)

\* C2 witness: a deletion removed dependency edges and left others.
C2_Witness ==
    /\ op.name = "apply_deletions"
    /\ Len(graph.edges) < Len(prev.edges)
    /\ \E e \in Range(prev.edges) \ Range(graph.edges) : e.kind # "Contains"
    /\ \E e \in Range(graph.edges) : e.kind # "Contains"

\* C3: apply_deletions returns the number of entities whose file was in
\* paths; afterwards no entity has a file in paths, file_index has no entry
\* for those paths, every other entity is still there as it was, and the
\* entity count dropped by the returned number.
C3_DeletionsCountAndRemove ==
    op.name = "apply_deletions" =>
        LET paths  == op.args.paths
            before == {k \in DOMAIN prev.entities : prev.entities[k].file \in paths}
        IN  /\ ret = Cardinality(before)
            /\ \A k \in DOMAIN graph.entities : graph.entities[k].file \notin paths
            /\ paths \cap DOMAIN graph.file_index = {}
            /\ \A k \in DOMAIN prev.entities \ before :
                  k \in DOMAIN graph.entities /\ graph.entities[k] = prev.entities[k]
            /\ Cardinality(DOMAIN graph.entities)
                 = Cardinality(DOMAIN prev.entities) - ret

\* C3 witness: deleting two files, one of them with three entities, removed
\* three entities and left others.
C3_Witness ==
    /\ op.name = "apply_deletions"
    /\ Cardinality(op.args.paths) = 2
    /\ ret = 3
    /\ DOMAIN graph.entities # {}

\* C4 as claimed: apply_renames with one pair (old, new) of different paths,
\* old indexing N >= 1 entities, returns (1, N); afterwards file_index has
\* key new and no key old, each formerly-old entity is stored under its ID
\* with the file prefix swapped, with id equal to the key and file equal to
\* new, and every edge endpoint and hierarchy entry that held the old ID holds
\* the new one.
C4_RenameRekeys ==
    (op.name = "apply_renames" /\ op.args.old \in DOMAIN prev.file_index
        /\ op.args.old # op.args.new) =>
        LET old    == op.args.old
            new    == op.args.new
            former == {k \in DOMAIN prev.entities : prev.entities[k].file = old}
            nid(k) == new \o SubSeq(k, Len(old) + 1, Len(k))
        IN  /\ Len(prev.file_index[old]) >= 1
            /\ ret = <<1, Len(prev.file_index[old])>>
            /\ old \notin DOMAIN graph.file_index
            /\ new \in DOMAIN graph.file_index
            /\ \A k \in former :
                  /\ nid(k) \in DOMAIN graph.entities
                  /\ graph.entities[nid(k)].id = nid(k)
                  /\ graph.entities[nid(k)].file = new
                  /\ GraphRefsMoved(prev, graph, k, nid(k))


\* ------------------------------------------------------- schema properties

MigratedOk == op.name = "migrate" /\ ret = "Ok"

\* C5: validate_version returns Ok exactly when graph.version is a semver
\* string whose major is CURRENT_VERSION's major, 2 (so 2.1.0 and 2.0.3 pass
\* and 3.0.0, 1.0.0 and non-semver strings fail), and it leaves the graph as
\* it was.
C5_ValidateVersionGate ==
    op.name = "validate_version" =>
        /\ (ret = "Ok") <=> (ParseVersion(graph.version).ok
                             /\ ParseVersion(graph.version).major = <<"2">>)
        /\ graph.version \in {<<"2", ".", "1", ".", "0">>,
                              <<"2", ".", "0", ".", "3">>} => ret = "Ok"
        /\ graph.version \in {<<"3", ".", "0", ".", "0">>,
                              <<"1", ".", "0", ".", "0">>} => ret = "VersionIncompatible"
        /\ ~ParseVersion(graph.version).ok => ret = "VersionUnparseable"
        /\ graph = prev

\* C5 witness: a graph at 2.0.3, an older minor and patch, was accepted.
C5_Witness ==
    /\ op.name = "validate_version"
    /\ graph.version = <<"2", ".", "0", ".", "3">>
    /\ ret = "Ok"

\* C6 as claimed: after migrate of a graph below 2.2.0, each entity formerly
\* keyed by an ID with backslashes is stored under the normalized ID with its
\* id field equal to that key and its other fields unchanged, and every
\* reference to the old ID is a reference to the new one.
C6_BackslashEntitiesRekeyed ==
    (MigratedOk /\ VersionLess(ParseVersion(prev.version), V220)) =>
        \A k \in DOMAIN prev.entities :
            HasBackslash(k) =>
                /\ norm(k) \in DOMAIN graph.entities
                /\ graph.entities[norm(k)] = [prev.entities[k] EXCEPT !.id = norm(k)]
                /\ RefsMoved(prev, graph, k, norm(k))

\* C7 as claimed: after a successful migrate of a graph that passes
\* validate_version, graph.version is CURRENT_VERSION.
C7_VersionIsCurrentAfterMigrate ==
    (MigratedOk /\ ValidateVersion(prev) = "Ok") =>
        graph.version = CURRENT_VERSION

\* C7 amended: after a successful migrate of a graph that passes
\* validate_version, graph.version is CURRENT_VERSION when the version was
\* not higher than CURRENT_VERSION, and is left as it was when it was higher.
C7_VersionCurrentUnlessNewer ==
    (MigratedOk /\ ValidateVersion(prev) = "Ok") =>
        IF VersionLess(Current, ParseVersion(prev.version))
        THEN graph.version = prev.version
        ELSE graph.version = CURRENT_VERSION

\* C7 witness: a graph at 2.0.3 was migrated and is now at CURRENT_VERSION.
C7_Witness ==
    /\ MigratedOk
    /\ prev.version = <<"2", ".", "0", ".", "3">>
    /\ graph.version = CURRENT_VERSION

\* C8: migrate is idempotent: a migrate that follows a migrate leaves the
\* whole graph (entities, file_index, edges, hierarchy, version) as the first
\* one left it.
C8_MigrateIdempotent ==
    (MigratedOk /\ op.after = "migrate") => graph = prev

\* C8 witness: migrate ran right after a migrate that had rewritten the top
\* node's entry a\b\c:f to a/b/c:f.
C8_Witness ==
    /\ MigratedOk
    /\ op.after = "migrate"
    /\ graph.hierarchy[NodeA].entities = <<IdU>>
    /\ graph.version = CURRENT_VERSION

\* C9 as claimed: after migrate of a graph below 2.2.0 no entity key, entity
\* id field, file_index entry, edge endpoint or hierarchy entry contains a
\* backslash.
C9_NoBackslashAfterMigrate ==
    (MigratedOk /\ VersionLess(ParseVersion(prev.version), V220)) =>
        /\ \A k \in DOMAIN graph.entities :
              ~HasBackslash(k) /\ ~HasBackslash(graph.entities[k].id)
        /\ \A r \in References(graph) : ~HasBackslash(r)

RoundTripped ==
    /\ op.name = "from_json"
    /\ op.after = "to_json"
    /\ prev.version = CURRENT_VERSION

\* C10 as claimed: from_json(to_json(g)) succeeds and equals g for any graph
\* at CURRENT_VERSION, whatever the order of its edges.
C10_RoundTripIsIdentity ==
    RoundTripped => (ret = "Ok" /\ graph = prev)

\* C10 amended: from_json(to_json(g)) succeeds and equals g except that its
\* edges are the edges of g sorted by (source, target, kind): the same edges,
\* each as often as in g, in ascending order.  It equals g itself when g's
\* edges are already sorted.
C10_RoundTripSortsEdges ==
    RoundTripped =>
        /\ ret = "Ok"
        /\ [graph EXCEPT !.edges = <<>>] = [prev EXCEPT !.edges = <<>>]
        /\ IsSorted(graph.edges)
        /\ Len(graph.edges) = Len(prev.edges)
        /\ \A e \in EdgeUniverse :
              Occurrences(graph.edges, e) = Occurrences(prev.edges, e)
        /\ IsSorted(prev.edges) => graph = prev

\* C10 witness: a graph at CURRENT_VERSION whose two edges were held out of
\* order went through to_json and from_json.
C10_Witness ==
    /\ RoundTripped
    /\ ret = "Ok"
    /\ Len(prev.edges) = 2
    /\ ~IsSorted(prev.edges)
    /\ graph # prev


\* The orders in which the edges es can be held in memory.
EdgeOrders(es) ==
    {[i \in 1..Len(es) |-> es[p[i]]] : p \in Permutations(1..Len(es))}

FromJsonInput == json

\* C12: from_json parses, then validates, then migrates.  Malformed input
\* yields an error; input whose version is not semver or has a major other
\* than CURRENT_VERSION's yields an error, returns no graph and leaves the
\* migration unapplied; a returned graph is a result of migrate on the parsed
\* graph, which passed validate_version.
C12_FromJsonParseValidateMigrate ==
    op.name = "from_json" =>
        /\ FromJsonInput.malformed => ret = "ParseGraph"
        /\ ret # "Ok" =>
              /\ graph = prev
              /\ \A r \in FromJson(FromJsonInput) : r.graph = NoJson
        /\ ~FromJsonInput.malformed =>
              LET parsed == ParseJson(FromJsonInput)
                  found  == ParseVersion(parsed.version)
              IN  /\ (~found.ok \/ found.major # <<"2">>) =>
                        ret \in {"VersionUnparseable", "VersionIncompatible"}
                  /\ (ret = "Ok") <=> (ValidateVersion(parsed) = "Ok")
                  /\ ret = "Ok" =>
                        /\ [status |-> "Ok", graph |-> graph] \in Migrate(parsed)
                        /\ ValidateVersion(graph) = "Ok"
                        /\ ~VersionLess(ParseVersion(graph.version),
                                        ParseVersion(CURRENT_VERSION))

\* C12 witness: from_json refused a well-formed document of a 1.x graph that
\* holds a backslashed entity key, which migrate would have rewritten.
C12_Witness ==
    /\ op.name = "from_json"
    /\ ~FromJsonInput.malformed
    /\ ParseVersion(FromJsonInput.version).ok
    /\ ParseVersion(FromJsonInput.version).major = <<"1">>
    /\ \E i \in 1..Len(FromJsonInput.entities) :
          HasBackslash(FromJsonInput.entities[i][1])
    /\ ret = "VersionIncompatible"
    /\ graph = prev

\* ------------------------------------------------------ hierarchy properties

RECURSIVE NodesAt(_, _)
\* The descendant of node at segs, as a set: empty when there is none.
NodesAt(node, segs) ==
    IF segs = <<>> THEN {node}
    ELSE IF segs[1] \in DOMAIN node.children
         THEN NodesAt(node.children[segs[1]], Tail(segs))
         ELSE {}

\* The IDs listed by the hierarchy node that path identifies; NodeExists tells
\* whether there is such a node.
NodeExists(g, path) ==
    LET segs == SplitOn(path, "/")
    IN  segs[1] \in DOMAIN g.hierarchy /\ NodesAt(g.hierarchy[segs[1]], Tail(segs)) # {}

EntitiesAt(g, path) ==
    LET segs == SplitOn(path, "/")
    IN  IF segs[1] \in DOMAIN g.hierarchy
        THEN UNION {Range(n.entities) : n \in NodesAt(g.hierarchy[segs[1]], Tail(segs))}
        ELSE {}

\* The entity a key stands for in graph g: the entity with that ID, else the
\* only entity with that name, else none.
Resolved(g, key) ==
    IF key \in DOMAIN g.entities THEN {key}
    ELSE LET named == {k \in DOMAIN g.entities : g.entities[k].name = key}
         IN  IF Cardinality(named) = 1 THEN named ELSE {}

\* The IDs an assignment to key reaches: the file's index list for a Module,
\* the entity alone otherwise.
Scope(g, key) ==
    UNION {IF g.entities[id].kind = "Module"
           THEN (IF g.entities[id].file \in DOMAIN g.file_index
                 THEN Range(g.file_index[g.entities[id].file]) ELSE {})
           ELSE {id} : id \in Resolved(g, key)}

AppliedHierarchy == op.name = "apply_hierarchy"

\* C13: an assignment key that is an entity ID stands for that entity, also
\* when entities carry the string as their name; otherwise the name of exactly
\* one entity stands for that entity; the entity a key stands for is listed
\* by the node of the assigned path and carries a path of the map (the
\* assigned one when the map has one entry).  A key that names several
\* entities or none is skipped: a map of skipped keys changes nothing, and an
\* entity no key reaches keeps its hierarchy_path.
C13_KeyResolution ==
    AppliedHierarchy =>
        LET entries == op.args
            keys    == {entries[i][1] : i \in 1..Len(entries)}
        IN  /\ \A i \in 1..Len(entries) :
                  \A id \in Resolved(prev, entries[i][1]) :
                     /\ id \in EntitiesAt(graph, entries[i][2])
                     /\ graph.entities[id].hierarchy_path \in
                           {entries[j][2] : j \in 1..Len(entries)}
                     /\ Len(entries) = 1 =>
                           graph.entities[id].hierarchy_path = entries[i][2]
            /\ (\A key \in keys : Resolved(prev, key) = {}) => graph = prev
            /\ \A k \in DOMAIN prev.entities :
                  (\A key \in keys : k \notin Scope(prev, key)) =>
                      graph.entities[k] = prev.entities[k]
            /\ DOMAIN graph.entities = DOMAIN prev.entities

\* C13 witness: the key "m" is the ID of the root file's Module and the name
\* of a class of another file; the Module got the path and is listed by its
\* node, and the class kept its own path.
C13_Witness ==
    /\ AppliedHierarchy
    /\ op.args = << <<PathM, <<"A", "/", "B">> >> >>
    /\ CanonicalId(PathA, <<"m">>) \in DOMAIN prev.entities
    /\ PathM \in DOMAIN prev.entities
    /\ graph.entities[PathM].hierarchy_path = <<"A", "/", "B">>
    /\ PathM \in EntitiesAt(graph, <<"A", "/", "B">>)
    /\ graph.entities[CanonicalId(PathA, <<"m">>)].hierarchy_path # <<"A", "/", "B">>

\* The IDs that the entries assigning path p reach.
ReachedWith(g, entries, p) ==
    UNION {Scope(g, entries[i][1]) : i \in {j \in 1..Len(entries) : entries[j][2] = p}}

\* C14: an assignment that resolves to a Module gives the assigned path to
\* every entity that file_index lists for the Module's file, the Module
\* included, and lists each of them in the node of the path; an assignment
\* that resolves to another entity sets that entity's path and inserts its ID
\* only.  The node of a path gains exactly the IDs reached by the entries
\* that assign that path, and no entity outside the reach of the map changes.
C14_AssignmentScope ==
    AppliedHierarchy =>
        LET entries == op.args
        IN  /\ \A p \in AssignPaths :
                  EntitiesAt(graph, p) =
                      EntitiesAt(prev, p) \cup ReachedWith(prev, entries, p)
            /\ Len(entries) = 1 =>
                  LET key  == entries[1][1]
                      path == entries[1][2]
                  IN  \A id \in Resolved(prev, key) :
                         /\ prev.entities[id].kind = "Module" =>
                               \A k \in DOMAIN prev.entities :
                                  IF k \in Range(prev.file_index[prev.entities[id].file])
                                  THEN /\ graph.entities[k] =
                                            [prev.entities[k] EXCEPT !.hierarchy_path = path]
                                       /\ k \in EntitiesAt(graph, path)
                                  ELSE graph.entities[k] = prev.entities[k]
                         /\ prev.entities[id].kind # "Module" =>
                               /\ graph.entities =
                                     [prev.entities EXCEPT ![id].hierarchy_path = path]
                               /\ EntitiesAt(graph, path) = EntitiesAt(prev, path) \cup {id}
            /\ \A k \in DOMAIN prev.entities :
                  (\A i \in 1..Len(entries) : k \notin Scope(prev, entries[i][1])) =>
                      graph.entities[k].hierarchy_path = prev.entities[k].hierarchy_path

\* C14 witness: the Module of file s/a, found by its name "a", was assigned
\* "A/B"; the file holds two more entities, which now carry that path and are
\* listed by that node; an entity of another file kept its path.
C14_Witness ==
    /\ AppliedHierarchy
    /\ op.args = << << <<"a">>, <<"A", "/", "B">> >> >>
    /\ PathA \in DOMAIN prev.file_index
    /\ Cardinality(Range(prev.file_index[PathA])) = 3
    /\ \A k \in Range(prev.file_index[PathA]) :
          /\ graph.entities[k].hierarchy_path = <<"A", "/", "B">>
          /\ k \in EntitiesAt(graph, <<"A", "/", "B">>)
    /\ \E k \in DOMAIN graph.entities :
          /\ graph.entities[k].file = PathM
          /\ graph.entities[k].hierarchy_path # <<"A", "/", "B">>

\* I4: every entity with a non-empty hierarchy_path names an existing node
\* that lists the entity's ID.
HierarchyCoherence(g) ==
    \A k \in DOMAIN g.entities :
        g.entities[k].hierarchy_path # <<>> =>
            /\ NodeExists(g, g.entities[k].hierarchy_path)
            /\ k \in EntitiesAt(g, g.entities[k].hierarchy_path)

\* C15: a built graph satisfies I1 and I4, and I4 holds again after every
\* apply_hierarchy, whatever the assignments map: also when it reaches an
\* entity more than once and when the entity already had a path.
C15_HierarchyCoherencePreserved ==
    /\ op.name = "build" => (I1(graph) /\ HierarchyCoherence(graph))
    /\ AppliedHierarchy => HierarchyCoherence(graph)

\* C15 witness: one map reached an entity twice with different paths, through
\* its ID and through the Module of its file, and the entity, which had a
\* path before, now has another one.
C15_Witness ==
    /\ AppliedHierarchy
    /\ Len(op.args) >= 2
    /\ \E k \in DOMAIN prev.entities :
          /\ prev.entities[k].kind # "Module"
          /\ prev.entities[k].hierarchy_path # <<>>
          /\ graph.entities[k].hierarchy_path # prev.entities[k].hierarchy_path
          /\ \E i, j \in 1..Len(op.args) :
                /\ op.args[i][1] = k
                /\ op.args[j][1] # k
                /\ k \in Scope(prev, op.args[j][1])
                /\ op.args[i][2] # op.args[j][2]

\* ------------------------------------------------ semantic lifting properties

ParsedResponse == op.name = "parse_line_features"

IsFeature(f) == f # <<>>

\* The small letter of a capital letter, any other character itself.
Small(c) ==
    IF Bytes[c] \in 65..90 THEN CHOOSE d \in DOMAIN Bytes : Bytes[d] = Bytes[c] + 32
    ELSE c

\* C16: the keys of the map parse_line_features returns are the trimmed names
\* of the lines that, after the think blocks are stripped and the line is
\* trimmed, are not empty, do not start with '#' or a fence, contain '|' and
\* have text before the first '|'.  The name keeps its case.  A name maps to
\* the comma-separated items after the first '|' of its line (of the last
\* such line when several carry the name), each trimmed and lowercased, the
\* empty ones dropped, in order; a line with no item left is recorded with
\* the empty list.
C16_ParseLineFeatures ==
    ParsedResponse =>
        LET ls       == Lines(strip_think_blocks(JoinLines(op.args)))
            t(i)     == Trim(ls[i])
            bar(i)   == IndexOf(t(i), "|")
            name(i)  == Trim(SubSeq(t(i), 1, bar(i) - 1))
            good     == {i \in 1..Len(ls) :
                           /\ t(i) # <<>>
                           /\ t(i)[1] # "#"
                           /\ ~(Len(t(i)) >= 3 /\ SubSeq(t(i), 1, 3) = <<"bq", "bq", "bq">>)
                           /\ bar(i) # 0
                           /\ name(i) # <<>>}
            raw(i)   == SplitOn(SubSeq(t(i), bar(i) + 1, Len(t(i))), ",")
            items(i) == SelectSeq([j \in 1..Len(raw(i)) |->
                                     [k \in 1..Len(Trim(raw(i)[j])) |->
                                        Small(Trim(raw(i)[j])[k])]],
                                  IsFeature)
        IN  /\ DOMAIN ret = {name(i) : i \in good}
            /\ \A i \in good :
                  (\A j \in good : name(j) = name(i) => j <= i) =>
                      ret[name(i)] = items(i)

\* C16 witness: a response with a comment, a record with a mixed-case list
\* and a stub with a capital name was parsed: the list is lowercased and in
\* order, the stub is recorded with the empty list under its capital name.
C16_Witness ==
    /\ ParsedResponse
    /\ op.args = << <<"#", "a", "|", "b">>,
                    <<"a", " ", "|", " ", "P", ",", " ", "p">>,
                    <<"B", "|">> >>
    /\ DOMAIN ret = {<<"a">>, <<"B">>}
    /\ ret[<<"a">>] = << <<"p">>, <<"p">> >>
    /\ ret[<<"B">>] = <<>>

\* The lines that, by the claim, can be put between records without effect:
\* blank, '#' comment, no '|', a paired think block.
InjectedLines ==
    { <<" ">>, <<"#", "a", "|", "b">>, <<"a", "b">>,
      OpenTag \o <<"c", "|", "a">> \o CloseTag, <<"#">> \o OpenTag }

IsRecordLine(l) == l \in RecordLines

\* The orders in which the lines ls can be written.
LineOrders(ls) ==
    {[i \in 1..Len(ls) |-> ls[p[i]]] : p \in Permutations(1..Len(ls))}

\* C17 as claimed: a response made of record lines with blank lines, '#'
\* comment lines, paired think blocks and lines without '|' between them
\* parses to the same map as the record lines alone, and so do the record
\* lines in every other order.
C17_ParseRobust ==
    (ParsedResponse /\ \A i \in 1..Len(op.args) :
                          op.args[i] \in RecordLines \cup InjectedLines) =>
        LET records == SelectSeq(op.args, IsRecordLine)
        IN  /\ ret = ParseLineFeatures(JoinLines(records))
            /\ \A other \in LineOrders(records) :
                  ParseLineFeatures(JoinLines(other)) = ret

NormalizedFeatures == op.name = "normalize_features"

\* C18: normalize_features keeps the keys; afterwards every list is sorted,
\* holds no string twice and no empty string, and every string is trimmed
\* and lowercase; the strings of a list are those of the list before, trimmed
\* and lowercased; and normalizing a normalized map changes nothing.
C18_NormalizeIdempotent ==
    NormalizedFeatures =>
        /\ DOMAIN ret = DOMAIN prev
        /\ \A k \in DOMAIN ret :
              LET l == ret[k]
              IN  /\ \A i, j \in 1..Len(l) : i < j => StrLess(l[i], l[j])
                  /\ \A i \in 1..Len(l) :
                        /\ l[i] # <<>>
                        /\ l[i][1] \notin Whitespace
                        /\ l[i][Len(l[i])] \notin Whitespace
                        /\ \A c \in 1..Len(l[i]) : Bytes[l[i][c]] \notin 65..90
                  /\ Range(l) = {ToLowercase(Trim(f)) : f \in Range(prev[k])} \ {<<>>}
        /\ op.after = "normalize_features" => ret = prev

\* C18 witness: a list whose three strings differ only in case and padding
\* around a fourth value, so that equal values are not neighbours, was
\* normalized to two strings.
C18_Witness ==
    /\ NormalizedFeatures
    /\ <<"a">> \in DOMAIN prev
    /\ prev[<<"a">>] = << <<"B">>, <<"a">>, <<"\n", "b", " ">> >>
    /\ ret[<<"a">>] = << <<"a">>, <<"b">> >>

\* ------------------------------------------------------- config properties

\* What the value of an environment variable means for a setting of the
\* given type: the number it writes, or nothing when it writes none.
EnvMeaning(type, s) ==
    CASE s = <<"7">> /\ type = "usize"              -> {<<"7">>}
      [] s \in {<<"0", ".", "7">>,
                 <<"7", "0", "0", "0", "0", "0", "0", "0", "0", "0", "0", "0", "0", "0", "0", "0",
                   "0", "1", "e", "-", "1", "8">>} /\ type = "f64" -> {F64("finite", FALSE,
              <<"6", "3", "0", "5", "0", "3", "9", "4", "7", "8", "3", "1", "8", "6", "9", "4">>,
              0 - 53)}
      [] s = <<"0", ".", "5", "0">> /\ type = "f64" -> {F64("finite", FALSE,
              <<"4", "5", "0", "3", "5", "9", "9", "6", "2", "7", "3", "7", "0", "4", "9", "6">>,
              0 - 53)}
      [] s = <<"-", "1">> /\ type = "f64"           -> {F64("finite", TRUE,
              <<"4", "5", "0", "3", "5", "9", "9", "6", "2", "7", "3", "7", "0", "4", "9", "6">>,
              0 - 52)}
      [] s = <<"I", "n", "f">> /\ type = "f64"      -> {F64("inf", FALSE, <<>>, 0)}
      [] OTHER                                      -> {}

\* C19: load takes each of the five settings from its environment variable
\* when the variable is set and its value parses, else from .rpg/config.toml
\* when the file is there and names the setting, else from the defaults.  A
\* value that does not parse is passed over without an error, and a missing
\* file gives the defaults and no error; load fails only on a file that is
\* there and cannot be read or parsed.
C19_LoadPrecedence ==
    op.name = "load" =>
        LET file == op.args.file
            env  == op.args.env
            fromEnv(s) == IF EnvVar[s] \in DOMAIN env
                          THEN EnvMeaning(TypeOf(s), env[EnvVar[s]]) ELSE {}
        IN  /\ file.kind \in {"missing", "present"} => ret.status = "Ok"
            /\ ret.status = "Ok" =>
                  \A s \in Settings :
                     ret.config[s] = IF fromEnv(s) # {} THEN CHOOSE v \in fromEnv(s) : TRUE
                              ELSE IF file.kind = "present" /\ s \in DOMAIN file.given
                                   THEN file.given[s]
                                   ELSE Default[s]
            /\ (file.kind = "missing" /\ env = EmptyMap) =>
                  ret.config = [batch_size |-> <<"5", "0">>,
                         max_batch_tokens |-> <<"8", "0", "0", "0">>,
                         hierarchy_chunk_size |-> <<"5", "0">>,
                         drift_threshold |-> F64("finite", FALSE,
                                 <<"4", "5", "0", "3", "5", "9", "9", "6", "2", "7", "3", "7", "0", "4", "9", "6">>,
                                 0 - 53),
                         search_result_limit |-> <<"1", "0">>]

\* C19 witness: the file names batch_size and max_batch_tokens; the variable
\* of batch_size holds a value that does not parse, the one of
\* search_result_limit holds 7, the one of max_batch_tokens holds 7: the
\* loaded configuration has the file's batch_size, 7 for the two others and
\* the default hierarchy_chunk_size.
C19_Witness ==
    /\ op.name = "load"
    /\ op.args.file.kind = "present"
    /\ DOMAIN op.args.file.given = {"batch_size", "max_batch_tokens"}
    /\ op.args.env = [v \in {"RPG_BATCH_SIZE", "RPG_SEARCH_LIMIT", "RPG_MAX_BATCH_TOKENS"} |->
                        IF v = "RPG_BATCH_SIZE" THEN <<"-", "1">> ELSE <<"7">>]
    /\ ret.status = "Ok"
    /\ ret.config.batch_size = <<"6", "4">>
    /\ ret.config.max_batch_tokens = <<"7">>
    /\ ret.config.search_result_limit = <<"7">>
    /\ ret.config.hierarchy_chunk_size = <<"5", "0">>


\* ------------------------------------------------- parser properties

\* Every raw entity of the call has been passed to insert_entity.
GraphBuilt == op.name \in {"collect", "insert_entity"} /\ ret = <<>>

\* The IDs a file_index list holds, and whether it repeats one.
IndexIds(g, p) == IF p \in DOMAIN g.file_index THEN Range(g.file_index[p]) ELSE {}
NoDuplicates(s) == \A i, j \in 1..Len(s) : s[i] = s[j] => i = j

\* C20: whatever the order in which the per-file tasks complete and in which
\* the raw entities are passed to insert_entity, raw entities sharing an ID
\* included, the built graph has the same entities map, every file_index
\* list holds the same set of IDs with no duplicate, and a file whose
\* extension maps to no language contributes no entity.
C20_DeterministicConstruction ==
    GraphBuilt =>
        /\ graph.entities = prev.entities
        /\ DOMAIN graph.file_index = DOMAIN prev.file_index
        /\ \A p \in DOMAIN graph.file_index :
            /\ IndexIds(graph, p) = IndexIds(prev, p)
            /\ NoDuplicates(graph.file_index[p])
        /\ \A i \in DOMAIN op.args :
              LET ext == Extension(op.args[i].rel_path)
              IN  (ext = <<>> \/ FromExtension(ext[1]) = <<>>)
                     => \A k \in DOMAIN graph.entities :
                           graph.entities[k].file # op.args[i].rel_path


\* ------------------------------------------- migrate keeps every entity

\* C21 as claimed: migrate of a graph below 2.2.0 leaves as many entities as
\* it found, also when two keys differ only in the direction of their
\* slashes and so normalize to the same ID.
C21_MigrateKeepsEveryEntity ==
    (MigratedOk /\ VersionLess(ParseVersion(prev.version), V220)) =>
        Cardinality(DOMAIN graph.entities) = Cardinality(DOMAIN prev.entities)


\* --------------------------------------- apply_hierarchy and entry order

\* The orders in which the entries of an assignments map can be iterated.
EntryOrders(entries) ==
    LET n == Len(entries)
    IN  {[i \in 1..n |-> entries[p[i]]] :
           p \in {q \in [1..n -> 1..n] : \A i, j \in 1..n : q[i] = q[j] => i = j}}

RECURSIVE Membership(_)
\* A hierarchy node with its entities list taken as the set of its members.
Membership(node) ==
    [name     |-> node.name,
     entities |-> Range(node.entities),
     children |-> [c \in DOMAIN node.children |-> Membership(node.children[c])]]

\* Graphs g and h give every entity the same hierarchy_path and every
\* hierarchy node the same members.
SameAssignment(g, h) ==
    /\ DOMAIN g.entities = DOMAIN h.entities
    /\ \A k \in DOMAIN g.entities :
          g.entities[k].hierarchy_path = h.entities[k].hierarchy_path
    /\ DOMAIN g.hierarchy = DOMAIN h.hierarchy
    /\ \A n \in DOMAIN g.hierarchy :
          Membership(g.hierarchy[n]) = Membership(h.hierarchy[n])

\* C22 as claimed: whatever the order in which the entries of the
\* assignments map are processed, apply_hierarchy gives every entity the same
\* hierarchy_path and every hierarchy node the same members, also when a
\* Module and an entity of its file, or an entity's ID and its unique bare
\* name, are assigned different paths in the same map.
C22_EntryOrderIrrelevant ==
    AppliedHierarchy =>
        \A entries \in EntryOrders(op.args) :
            SameAssignment(ApplyHierarchy(prev, entries), graph)


====
